---------------------------- MODULE Spec2Model ----------------------------
(***************************************************************************)
(* ETL pipelines (students via runETL, titanic, netflix), their loaders,   *)
(* the relational store they write to, the sheet feedback and the          *)
(* data-quality auditor.                                                   *)
(*                                                                         *)
(* A JavaScript string is a sequence of one-character strings; the value   *)
(* undefined and a JSON number are two marker sequences that no string     *)
(* equals.                                                                 *)
(***************************************************************************)
EXTENDS Integers, Sequences, FiniteSets, TLC

\* ------------------------------------------------------------------------
\* Bounds of the model
\* ------------------------------------------------------------------------
MaxRows == 2

MaxRuns == 2

MaxFaults == 2

\* ------------------------------------------------------------------------
\* JavaScript values and string functions
\* ------------------------------------------------------------------------
Undef == <<"undefined">>

\* a JSON number (a non-string truthy value): the marker, then its decimal text
JsNumber == <<"number", "7">>

IsString(v) == v # Undef /\ v # JsNumber

Truthy(v) == v # Undef /\ v # <<>>

UpperChars ==
    << "A", "B", "C", "D", "E", "F", "G", "H", "I", "J", "K", "L", "M",
       "N", "O", "P", "Q", "R", "S", "T", "U", "V", "W", "X", "Y", "Z" >>

LowerChars ==
    << "a", "b", "c", "d", "e", "f", "g", "h", "i", "j", "k", "l", "m",
       "n", "o", "p", "q", "r", "s", "t", "u", "v", "w", "x", "y", "z" >>

DigitChars == << "0", "1", "2", "3", "4", "5", "6", "7", "8", "9" >>

Range(s) == { s[i] : i \in DOMAIN s }

IndexOf(c, s) ==
    IF \E i \in DOMAIN s : s[i] = c
    THEN CHOOSE i \in DOMAIN s : s[i] = c /\ \A j \in 1..(i - 1) : s[j] # c
    ELSE 0

Min(a, b) == IF a < b THEN a ELSE b

Abs(n) == IF n < 0 THEN 0 - n ELSE n

IsSpace(c) == c \in { " ", "\t", "\n" }

IsDigit(c) == c \in Range(DigitChars)

IsLetter(c) == c \in Range(UpperChars) \cup Range(LowerChars)

IsWordChar(c) == IsLetter(c) \/ IsDigit(c) \/ c = "_"

toLowerCase(s) ==
    [ i \in 1..Len(s) |->
        IF IndexOf(s[i], UpperChars) > 0
        THEN LowerChars[IndexOf(s[i], UpperChars)] ELSE s[i] ]

toUpperCase(s) ==
    [ i \in 1..Len(s) |->
        IF IndexOf(s[i], LowerChars) > 0
        THEN UpperChars[IndexOf(s[i], LowerChars)] ELSE s[i] ]

RECURSIVE trimStart(_)
trimStart(s) ==
    IF s # <<>> /\ IsSpace(Head(s)) THEN trimStart(Tail(s)) ELSE s

RECURSIVE trimEnd(_)
trimEnd(s) ==
    IF s # <<>> /\ IsSpace(s[Len(s)])
    THEN trimEnd(SubSeq(s, 1, Len(s) - 1)) ELSE s

trim(s) == trimEnd(trimStart(s))

\* s.substring(0, n)
substring(s, n) == SubSeq(s, 1, Min(n, Len(s)))

\* s.replace(/\s+/g, ' ')
RECURSIVE collapseSpaces(_)
collapseSpaces(s) ==
    IF s = <<>> THEN <<>>
    ELSE IF IsSpace(Head(s))
         THEN << " " >> \o collapseSpaces(trimStart(s))
         ELSE << Head(s) >> \o collapseSpaces(Tail(s))

\* value of the longest prefix of decimal digits of s, acc the value so far
RECURSIVE digitsValue(_, _)
digitsValue(s, acc) ==
    IF s # <<>> /\ IsDigit(Head(s))
    THEN digitsValue(Tail(s), acc * 10 + (IndexOf(Head(s), DigitChars) - 1))
    ELSE acc

NaN == [ nan |-> TRUE, num |-> 0 ]

IsNegative(t) == t # <<>> /\ Head(t) = "-"

Unsigned(t) == IF t # <<>> /\ Head(t) \in { "-", "+" } THEN Tail(t) ELSE t

IntegerOf(neg, u) ==
    IF u = <<>> \/ ~IsDigit(Head(u)) THEN NaN
    ELSE [ nan |-> FALSE,
           num |-> IF neg THEN 0 - digitsValue(u, 0) ELSE digitsValue(u, 0) ]

parseIntText(t) == IntegerOf(IsNegative(t), Unsigned(t))

\* parseInt(value): NaN when no number starts the text
parseInt(v) ==
    IF v = Undef THEN NaN
    ELSE parseIntText(trimStart(IF v = JsNumber THEN Tail(v) ELSE v))

\* parseFloat(value) for texts of the shape [ws][sign]digits[.digits]: the sign,
\* the integer part and the fraction digits without trailing zeros
RECURSIVE takeDigits(_)
takeDigits(s) ==
    IF s # <<>> /\ IsDigit(Head(s)) THEN << Head(s) >> \o takeDigits(Tail(s))
    ELSE <<>>

RECURSIVE stripZeros(_)
stripZeros(s) ==
    IF s # <<>> /\ s[Len(s)] = "0" THEN stripZeros(SubSeq(s, 1, Len(s) - 1))
    ELSE s

FloatNaN == [ nan |-> TRUE, neg |-> FALSE, int |-> 0, frac |-> <<>> ]

FloatOf(neg, ip, fp) ==
    IF ip = <<>> /\ fp = <<>> THEN FloatNaN
    ELSE [ nan |-> FALSE,
           neg |-> neg /\ (digitsValue(ip, 0) # 0 \/ stripZeros(fp) # <<>>),
           int |-> digitsValue(ip, 0),
           frac |-> stripZeros(fp) ]

FractionOf(r) == IF r # <<>> /\ Head(r) = "." THEN takeDigits(Tail(r)) ELSE <<>>

FloatParts(neg, u, ip) == FloatOf(neg, ip, FractionOf(SubSeq(u, Len(ip) + 1, Len(u))))

FloatUnsigned(neg, u) == FloatParts(neg, u, takeDigits(u))

parseFloatText(t) == FloatUnsigned(IsNegative(t), Unsigned(t))

parseFloat(v) ==
    IF v = Undef THEN FloatNaN
    ELSE parseFloatText(trimStart(IF v = JsNumber THEN Tail(v) ELSE v))

\* num < m and num > m for a parsed float and an integer m
FloatLess(f, m) ==
    IF f.neg THEN (0 - f.int < m) \/ (0 - f.int = m /\ f.frac # <<>>)
    ELSE f.int < m

FloatGreater(f, m) ==
    IF f.neg THEN 0 - f.int > m
    ELSE (f.int > m) \/ (f.int = m /\ f.frac # <<>>)

\* ------------------------------------------------------------------------
\* Validators
\* ------------------------------------------------------------------------
Unknown == << "U", "n", "k", "n", "o", "w", "n" >>

General == << "G", "e", "n", "e", "r", "a", "l" >>

NameMaxLength == 50

EmailMaxLength == 100

PhoneMaxLength == 20

FieldMaxLength == 100

GradeMaxLength == 5

IsHazard(c) == c \in { "<", ">", "'", "\"" }

KeepNotHazard(c) == ~IsHazard(c)

sanitizeString(input, maxLength) ==
    IF ~Truthy(input) \/ ~IsString(input) THEN <<>>
    ELSE substring(SelectSeq(trim(input), KeepNotHazard), maxLength)

KeepNameChar(c) == IsWordChar(c) \/ IsSpace(c) \/ c = "-"

sanitizeName(name, maxLength) ==
    IF ~Truthy(name) \/ ~IsString(name) THEN Unknown
    ELSE substring(collapseSpaces(SelectSeq(trim(name), KeepNameChar)), maxLength)

\* the parts of s between the occurrences of c (s.split(c))
RECURSIVE split(_, _)
split(s, c) ==
    LET i == IndexOf(c, s)
    IN  IF i = 0 THEN << s >>
        ELSE << SubSeq(s, 1, i - 1) >> \o split(SubSeq(s, i + 1, Len(s)), c)

\* parts.join(' ')
RECURSIVE join(_)
join(parts) ==
    IF parts = <<>> THEN <<>>
    ELSE IF Len(parts) = 1 THEN parts[1]
    ELSE parts[1] \o << " " >> \o join(Tail(parts))

IsLocalChar(c) ==
    IsLetter(c) \/ IsDigit(c)
        \/ c \in { ".", "_", "%", "+", "-", "!", "#", "$", "&", "*", "/", "=", "?", "^", "{", "|", "}", "~" }

IsAtom(a) == a # <<>> /\ \A j \in DOMAIN a : IsLocalChar(a[j])

IsLabel(l) ==
    /\ l # <<>>
    /\ \A i \in DOMAIN l : IsLetter(l[i]) \/ IsDigit(l[i]) \/ l[i] = "-"
    /\ l[1] # "-" /\ l[Len(l)] # "-"

IsTld(l) == Len(l) >= 2 /\ \A j \in DOMAIN l : IsLetter(l[j])

IsLocalPart(atoms) == \A i \in DOMAIN atoms : IsAtom(atoms[i])

IsDomain(labels) ==
    /\ Len(labels) >= 2
    /\ \A i \in DOMAIN labels : IsLabel(labels[i])
    /\ IsTld(labels[Len(labels)])

IsAddress(parts) ==
    /\ Len(parts) = 2
    /\ IsLocalPart(split(parts[1], "."))
    /\ IsDomain(split(parts[2], "."))

\* validator.isEmail with its default options: one local part of dot-separated
\* atoms, "@", and a domain of at least two labels whose last has two or more
\* letters
isEmail(s) == IsAddress(split(s, "@"))

EmailResult(valid, error, email) == [ valid |-> valid, error |-> error, email |-> email ]

checkEmail(sanitized) ==
    IF ~isEmail(sanitized) THEN EmailResult(FALSE, "Invalid email format", <<>>)
    ELSE IF Len(sanitized) > EmailMaxLength
    THEN EmailResult(FALSE, "Email too long (max 100 characters)", <<>>)
    ELSE EmailResult(TRUE, "", sanitized)

\* validateEmail without toLowerCase
validateEmailKeepingCase(email) ==
    IF ~Truthy(email) \/ ~IsString(email)
    THEN EmailResult(FALSE, "Email is required", <<>>)
    ELSE checkEmail(trim(email))

validateEmail(email) ==
    IF ~Truthy(email) \/ ~IsString(email)
    THEN EmailResult(FALSE, "Email is required", <<>>)
    ELSE checkEmail(toLowerCase(trim(email)))

KeepPhoneChar(c) == IsDigit(c) \/ c \in { "+", "-", "(", ")", " " }

\* threw: phone.replace is not a function (a truthy value that is no string)
validatePhone(phone) ==
    IF ~Truthy(phone) THEN [ valid |-> TRUE, phone |-> Undef, threw |-> FALSE ]
    ELSE IF ~IsString(phone) THEN [ valid |-> FALSE, phone |-> Undef, threw |-> TRUE ]
    ELSE [ valid |-> TRUE,
           phone |-> substring(SelectSeq(phone, KeepPhoneChar), PhoneMaxLength),
           threw |-> FALSE ]

\* min and max are sets: empty for null, else the one bound
checkNumber(num, min, max) ==
    IF num.nan THEN [ valid |-> FALSE, error |-> "Invalid number", value |-> num ]
    ELSE IF \E m \in min : FloatLess(num, m)
    THEN [ valid |-> FALSE, error |-> "Number must be at least min", value |-> num ]
    ELSE IF \E m \in max : FloatGreater(num, m)
    THEN [ valid |-> FALSE, error |-> "Number must be at most max", value |-> num ]
    ELSE [ valid |-> TRUE, error |-> "", value |-> num ]

validateNumber(value, min, max) == checkNumber(parseFloat(value), min, max)

checkInteger(p, min, max) ==
    IF p.nan THEN [ valid |-> FALSE, error |-> "Invalid integer", value |-> 0 ]
    ELSE IF \E m \in min : p.num < m
    THEN [ valid |-> FALSE, error |-> "Integer must be at least min", value |-> 0 ]
    ELSE IF \E m \in max : p.num > m
    THEN [ valid |-> FALSE, error |-> "Integer must be at most max", value |-> 0 ]
    ELSE [ valid |-> TRUE, error |-> "", value |-> p.num ]

validateInteger(value, min, max) == checkInteger(parseInt(value), min, max)

NameResult(valid, error, firstName, lastName) ==
    [ valid |-> valid, error |-> error, firstName |-> firstName,
      lastName |-> lastName ]

checkName(first, firstName, lastName) ==
    IF first = <<>> THEN NameResult(FALSE, "Name cannot be empty", <<>>, <<>>)
    ELSE IF ~Truthy(firstName) \/ firstName = Unknown
    THEN NameResult(FALSE, "First name is required", <<>>, <<>>)
    ELSE NameResult(TRUE, "", firstName, lastName)

\* parts.slice(1).join(' ') || 'Unknown'
RestOrUnknown(rest) == IF Truthy(rest) THEN rest ELSE Unknown

nameOfParts(parts) ==
    checkName(parts[1], sanitizeName(parts[1], NameMaxLength),
              sanitizeName(RestOrUnknown(join(Tail(parts))), NameMaxLength))

parseFullName(fullName) ==
    IF ~Truthy(fullName) \/ ~IsString(fullName)
    THEN NameResult(FALSE, "Name is required", <<>>, <<>>)
    ELSE nameOfParts(split(collapseSpaces(trim(fullName)), " "))

\* row[k] of a JavaScript array: undefined past its end
Cell(row, k) == IF k + 1 <= Len(row) THEN row[k + 1] ELSE Undef

AllowedGrades ==
    { << "A" >>, << "A", "-" >>, << "B", "+" >>, << "B" >>, << "B", "-" >>,
      << "C", "+" >>, << "C" >>, << "C", "-" >>, << "D" >>, << "F" >> }

\* a number or null, as a sequence of at most one number
Null == <<>>

\* the entry errors.push adds for a field: its name and the message
FieldError(failed, field, message) ==
    IF failed THEN << field, message >> ELSE <<>>

\* row[7] ? sanitizeString(row[7], 5).toUpperCase() : null
gradeOf(cell) ==
    IF Truthy(cell) THEN toUpperCase(sanitizeString(cell, GradeMaxLength)) ELSE Undef

\* row[k] || 'General'
OrGeneral(cell) == IF Truthy(cell) THEN cell ELSE General

\* a result that stops at the first failing field
studentResultFirst(threw, errors, data) ==
    [ threw |-> threw,
      valid |-> ~threw /\ errors = <<>>,
      errors |-> IF threw THEN << "TypeError", "phone.replace is not a function" >>
                 ELSE SubSeq(errors, 1, Min(2, Len(errors))),
      data |-> data ]

\* the result of validateStudentRow from the results of its field validators;
\* threw: the call ended in a TypeError instead of returning (validatePhone on
\* a truthy non-string)
studentResult(threw, errors, data) ==
    [ threw |-> threw,
      valid |-> ~threw /\ errors = <<>>,
      errors |-> IF threw THEN << "TypeError", "phone.replace is not a function" >>
                 ELSE errors,
      data |-> data ]

studentFields(row, nameResult, emailResult, phoneResult, creditsResult, grade, yearResult) ==
    studentResult(
        phoneResult.threw,
        FieldError(~nameResult.valid, "Name", nameResult.error)
            \o FieldError(~emailResult.valid, "Email", emailResult.error)
            \o FieldError(Truthy(Cell(row, 6)) /\ ~creditsResult.valid, "Credits",
                          creditsResult.error)
            \o FieldError(Truthy(grade) /\ grade \notin AllowedGrades, "Grade",
                          "Invalid grade value")
            \o FieldError(Truthy(Cell(row, 8)) /\ ~yearResult.valid, "Year",
                          yearResult.error),
        [ firstName |-> IF nameResult.valid THEN nameResult.firstName ELSE Undef,
          lastName |-> IF nameResult.valid THEN nameResult.lastName ELSE Undef,
          email |-> IF emailResult.valid THEN emailResult.email ELSE Undef,
          phone |-> phoneResult.phone,
          department |-> sanitizeString(OrGeneral(Cell(row, 4)), FieldMaxLength),
          course |-> sanitizeString(OrGeneral(Cell(row, 5)), FieldMaxLength),
          credits |-> IF creditsResult.valid THEN << creditsResult.value >> ELSE Null,
          grade |-> grade,
          year |-> IF yearResult.valid THEN yearResult.value ELSE 1 ])

validateStudentRow(row) ==
    studentFields(row, parseFullName(Cell(row, 1)), validateEmail(Cell(row, 2)),
                  validatePhone(Cell(row, 3)),
                  validateInteger(Cell(row, 6), { 1 }, { 10 }),
                  gradeOf(Cell(row, 7)),
                  validateInteger(Cell(row, 8), { 1 }, { 5 }))

\* ------------------------------------------------------------------------
\* The relational store: each table is the sequence of its rows in insertion
\* order; SQL NULL is Undef
\* ------------------------------------------------------------------------
SqlNull == Undef

\* a number in a nullable or numeric column: boxed, so that it compares with NULL
Num(n) == << "num", n >>

Float(n) == [ nan |-> FALSE, neg |-> n < 0, int |-> Abs(n), frac |-> <<>> ]

IntroToCS == << "I", "n", "t", "r", "o", " ", "t", "o", " ", "C", "S" >>

CalculusI == << "C", "a", "l", "c", "u", "l", "u", "s", " ", "I" >>

Physics101 == << "P", "h", "y", "s", "i", "c", "s", " ", "1", "0", "1" >>

\* the courses table as seeded; no pipeline writes to it
Courses ==
    << [ course_id |-> 1, course_name |-> IntroToCS ],
       [ course_id |-> 2, course_name |-> CalculusI ],
       [ course_id |-> 3, course_name |-> Physics101 ] >>

FirstNameColumnLength == 50

LastNameColumnLength == 50

EmailColumnLength == 100

\* the positions of table whose column col equals v
Matching(table, col, v) == { i \in DOMAIN table : table[i][col] = v }

\* the result of a statement: the store after it (unchanged when error # "")
\* and the count of rows it inserted
Result(db, error, rowCount) == [ db |-> db, error |-> error, rowCount |-> rowCount ]

\* a row goes into a table unless the unique index on key holds its key
InsertRow(table, row, key) ==
    IF Matching(table, key, row[key]) # {}
    THEN [ table |-> table, error |-> "unique_violation" ]
    ELSE [ table |-> Append(table, row), error |-> "" ]

StudentRow(student_id, p_first_name, p_last_name, p_email) ==
    [ student_id |-> student_id, first_name |-> p_first_name,
      last_name |-> p_last_name, email |-> p_email, phone |-> SqlNull,
      enrollment_year |-> Num(Float(1)) ]

\* the outcome of the INSERT of register_student: the store (with the value of
\* the sequence used up), the error and the student_id returned
StudentInserted(db, r, student_id) ==
    [ db |-> IF r.error # "" THEN db
             ELSE [ db EXCEPT !.studentSeq = @ + 1, !.students = r.table ],
      error |-> r.error, student_id |-> student_id ]

\* the INSERT of register_student without its ON CONFLICT clause
InsertStudentPlain(db, p_first_name, p_last_name, p_email) ==
    StudentInserted(db,
        InsertRow(db.students,
                  StudentRow(db.studentSeq, p_first_name, p_last_name, p_email),
                  "email"),
        db.studentSeq)

\* the INSERT with ON CONFLICT (email) DO UPDATE SET first_name, last_name
InsertStudentOverwriting(db, p_first_name, p_last_name, p_email) ==
    IF Matching(db.students, "email", p_email) # {}
    THEN [ db |-> [ db EXCEPT
                      !.studentSeq = @ + 1,
                      !.students = [ i \in DOMAIN @ |->
                          IF @[i].email = p_email
                          THEN [ @[i] EXCEPT !.first_name = p_first_name,
                                             !.last_name = p_last_name ]
                          ELSE @[i] ] ],
           error |-> "",
           student_id |->
               db.students[CHOOSE i \in Matching(db.students, "email", p_email) :
                               TRUE].student_id ]
    ELSE StudentInserted(db,
             InsertRow(db.students,
                       StudentRow(db.studentSeq, p_first_name, p_last_name, p_email),
                       "email"),
             db.studentSeq)

\* INSERT INTO students (first_name, last_name, email) VALUES (...)
\*   ON CONFLICT (email) DO UPDATE SET email = p_email RETURNING student_id
\* The serial default is taken before the conflict is detected, so a conflicting
\* insert uses up a value of the sequence too.
InsertStudent(db, p_first_name, p_last_name, p_email) ==
    IF SqlNull \in { p_first_name, p_last_name, p_email }
    THEN [ db |-> db, error |-> "not_null_violation", student_id |-> 0 ]
    ELSE IF \/ Len(p_first_name) > FirstNameColumnLength
            \/ Len(p_last_name) > LastNameColumnLength
            \/ Len(p_email) > EmailColumnLength
    THEN [ db |-> db, error |-> "string_data_right_truncation", student_id |-> 0 ]
    ELSE IF Matching(db.students, "email", p_email) # {}
    THEN [ db |-> [ db EXCEPT !.studentSeq = @ + 1 ], error |-> "",
           student_id |->
               db.students[CHOOSE i \in Matching(db.students, "email", p_email) :
                               TRUE].student_id ]
    ELSE StudentInserted(db,
             InsertRow(db.students,
                       StudentRow(db.studentSeq, p_first_name, p_last_name, p_email),
                       "email"),
             db.studentSeq)

\* INSERT INTO enrollments (student_id, course_id, grade) VALUES (.., .., NULL)
\*   ON CONFLICT DO NOTHING
InsertEnrollment(db, v_student_id, v_course_id) ==
    IF \E i \in DOMAIN db.enrollments :
          /\ db.enrollments[i].student_id = v_student_id
          /\ db.enrollments[i].course_id = v_course_id
    THEN db
    ELSE [ db EXCEPT !.enrollments = Append(@,
               [ student_id |-> v_student_id, course_id |-> v_course_id,
                 grade |-> SqlNull ]) ]

\* the lowest position of a course of that name, as a set of at most one
FoundCourse(p_course_name) ==
    { i \in Matching(Courses, "course_name", p_course_name) :
        \A j \in Matching(Courses, "course_name", p_course_name) : i <= j }

Enroll(ins, found) ==
    IF ins.error # "" THEN Result(ins.db, ins.error, 0)
    ELSE IF found = {} THEN Result(ins.db, "", 0)
    ELSE Result(InsertEnrollment(ins.db, ins.student_id,
                    Courses[CHOOSE i \in found : TRUE].course_id),
                "", 0)

\* CALL register_student(p_first_name, p_last_name, p_email, p_course_name)
register_student(db, p_first_name, p_last_name, p_email, p_course_name) ==
    Enroll(InsertStudent(db, p_first_name, p_last_name, p_email),
           FoundCourse(p_course_name))

\* INSERT INTO table (...) VALUES rows ON CONFLICT (key) DO NOTHING: the rows
\* are taken in order, a row whose key is in the table (or was put there by an
\* earlier row of the same statement) is skipped; rowCount counts the rows put
\* in. An error leaves the table as the statement found it.
RECURSIVE InsertDoNothing(_, _, _, _)
RECURSIVE InsertNext(_, _, _, _, _)
InsertNext(table, r, rows, key, rowCount) ==
    IF r.error # "" THEN [ table |-> table, rowCount |-> 0, error |-> r.error ]
    ELSE InsertDoNothing(r.table, rows, key, rowCount + 1)

\* the INSERT without its ON CONFLICT clause
RECURSIVE InsertEvery(_, _, _, _)
InsertEvery(table, rows, key, rowCount) ==
    IF rows = <<>> THEN [ table |-> table, rowCount |-> rowCount, error |-> "" ]
    ELSE InsertNext(table, InsertRow(table, Head(rows), key), Tail(rows), key, rowCount)

InsertDoNothing(table, rows, key, rowCount) ==
    IF rows = <<>> THEN [ table |-> table, rowCount |-> rowCount, error |-> "" ]
    ELSE IF Matching(table, key, Head(rows)[key]) # {}
    THEN InsertDoNothing(table, Tail(rows), key, rowCount)
    ELSE InsertNext(table, InsertRow(table, Head(rows), key), Tail(rows), key, rowCount)

\* the statement's result on the table called name: on an error the store is unchanged
Inserted(db, name, r) ==
    IF r.error # "" THEN Result(db, r.error, 0)
    ELSE Result([ db EXCEPT ![name] = r.table ], "", r.rowCount)

\* the titanic statement of loadTitanicData on one batch
InsertTitanic(db, batch) ==
    Inserted(db, "titanic", InsertDoNothing(db.titanic, batch, "passenger_id", 0))

\* the netflix statement of loadNetflixData on one batch
InsertNetflix(db, batch) ==
    Inserted(db, "netflix", InsertDoNothing(db.netflix, batch, "show_id", 0))

\* ------------------------------------------------------------------------
\* Dataset validators
\* ------------------------------------------------------------------------
\* result.value || d
OrDefault(r, d) == IF r.valid /\ r.value # 0 THEN r.value ELSE d

\* result.valid ? result.value : d, for a float and for an integer
ValueOr(r, d) == IF r.valid THEN Num(r.value) ELSE d

IntegerOr(r, d) == IF r.valid THEN r.value ELSE d

titanicFields(row, passengerIdResult) ==
    IF ~passengerIdResult.valid
    THEN [ valid |-> FALSE, error |-> "Invalid passenger_id", data |-> <<>> ]
    ELSE [ valid |-> TRUE, error |-> "",
           data |->
             [ passenger_id |-> Num(passengerIdResult.value),
               survived |-> Num(Float(OrDefault(validateInteger(row.survived, { 0 }, { 1 }), 0))),
               pclass |-> Num(Float(OrDefault(validateInteger(row.pclass, { 1 }, { 3 }), 3))),
               name |-> sanitizeString(row.name, 255),
               sex |-> sanitizeString(row.sex, 10),
               age |-> ValueOr(validateNumber(row.age, { 0 }, { 150 }), SqlNull),
               sibsp |-> Num(Float(IntegerOr(validateInteger(row.sibsp, { 0 }, { 10 }), 0))),
               parch |-> Num(Float(IntegerOr(validateInteger(row.parch, { 0 }, { 10 }), 0))),
               ticket |-> sanitizeString(row.ticket, 50),
               fare |-> ValueOr(validateNumber(row.fare, { 0 }, {}), Num(Float(0))),
               cabin |-> sanitizeString(row.cabin, 50),
               embarked |-> sanitizeString(row.embarked, 5) ] ]

validateTitanicRow(row) ==
    titanicFields(row, validateInteger(row.passengerid, {}, {}))

\* yearResult.valid ? yearResult.value : null
YearOr(r) == IF r.valid THEN Num(Float(r.value)) ELSE SqlNull

validateNetflixRow(row) ==
    IF ~Truthy(row.show_id)
    THEN [ valid |-> FALSE, error |-> "show_id is required", data |-> <<>> ]
    ELSE [ valid |-> TRUE, error |-> "",
           data |->
             [ show_id |-> sanitizeString(row.show_id, 10),
               type |-> sanitizeString(row.type, 20),
               title |-> sanitizeString(row.title, 255),
               director |-> sanitizeString(row.director, 500),
               cast_members |-> sanitizeString(row.cast, 1000),
               country |-> sanitizeString(row.country, 255),
               date_added |-> sanitizeString(row.date_added, 50),
               release_year |-> YearOr(validateInteger(row.release_year, { 1900 }, { 2030 })),
               rating |-> sanitizeString(row.rating, 20),
               duration |-> sanitizeString(row.duration, 20),
               listed_in |-> sanitizeString(row.listed_in, 500),
               description |-> sanitizeString(row.description, 1000) ] ]

\* validation.valid ? [validation.data] : []
ValidTitanic(validation) == IF ~validation.valid THEN <<>> ELSE << validation.data >>

\* the test of transformNetflixData without validation.data.show_id
ValidNetflixUnchecked(validation) ==
    IF ~validation.valid THEN <<>> ELSE << validation.data >>

\* validation.valid && validation.data.show_id ? [validation.data] : []
ValidNetflix(validation) ==
    IF ~validation.valid \/ ~Truthy(validation.data.show_id) THEN <<>>
    ELSE << validation.data >>

\* transformTitanicData(rows): the data of the valid rows, in order
RECURSIVE transformTitanicData(_)
transformTitanicData(rows) ==
    IF rows = <<>> THEN <<>>
    ELSE ValidTitanic(validateTitanicRow(Head(rows))) \o transformTitanicData(Tail(rows))

\* transformNetflixData(rows)
RECURSIVE transformNetflixData(_)
transformNetflixData(rows) ==
    IF rows = <<>> THEN <<>>
    ELSE ValidNetflix(validateNetflixRow(Head(rows))) \o transformNetflixData(Tail(rows))

\* ------------------------------------------------------------------------
\* State
\* ------------------------------------------------------------------------
VARIABLES
    script,            \* which pipeline this process runs: students, titanic, netflix
    sourceType,        \* config.etl.sourceType
    enableCaching,     \* config.etl.enableCaching
    source,            \* the sheet (A2:J) or the rows of the CSV / JSON file
    cache,             \* the cache file of extractData: [exists, mtime, data]
    now,               \* Date.now()
    db,                \* the committed content of the store
    tx,                \* the open transaction's view of the store, if one is open
    pool,              \* db.js pool: TRUE between initializePool and closePool
    client,            \* TRUE while executeTransaction holds a pool client
    pc,                \* the await the run is suspended at
    ret,               \* where batchUpdateSheet returns to
    runs,              \* the runs started so far
    rows,              \* runETL: rows
    transformedRows,   \* runETL: transformedRows; the loaders' validRows
    sheetUpdates,      \* runETL: sheetUpdates
    processedCount,    \* runETL: processedCount
    errorCount,        \* runETL: errorCount
    idx,               \* the loop position of the loader or of batchUpdateSheet
    successCount,      \* loadData: successCount; the loaders' insertedCount
    loadedCount,       \* the count the loader returned
    report,            \* generateQualityReport: report
    qconfig,           \* generateQualityReport: tableName and config
    error,             \* the error being thrown out of the run, "" for none
    exitCode,          \* process.exit status of the last finished run
    faults,            \* the I/O failures the environment has produced so far
    log,               \* the I/O operations of the current run, in order
    before,            \* the store and the source as the current run found them
    lastLoad,          \* the last committed load: its records, the store before and after
    maxRetries,        \* config.database.maxRetries; queryWithRetry: retries
    retryDelay,        \* config.database.retryDelay
    retries,           \* initializePool: retries
    attempt,           \* queryWithRetry: attempt
    lastError,         \* queryWithRetry: lastError, its code
    issued,            \* the connection tests or queries issued by the call so far
    waits,             \* the sleeps of the call or run so far, in order
    arg,               \* the argument of the validator under call
    outcome,           \* what that call returned
    sent,              \* the batches the statements and requests of the run carried
    procs              \* the loaders that run side by side: position, rows, error

cfgVars == << script, sourceType, enableCaching >>

envVars == << source, cache, now >>

storeVars == << db, tx, pool, client >>

runVars == << rows, transformedRows, sheetUpdates, processedCount, errorCount,
              idx, successCount, loadedCount >>

auditVars == << report, qconfig >>

histVars == << log, before, lastLoad >>

retryVars == << maxRetries, retryDelay, retries, attempt, lastError, issued, waits >>

callVars == << arg, outcome >>

vars == << cfgVars, envVars, storeVars, pc, ret, runs, runVars, auditVars,
           error, exitCode, faults, histVars, retryVars, callVars, sent,
           procs >>

\* ------------------------------------------------------------------------
\* Configuration (config.js) and the inputs of the model
\* ------------------------------------------------------------------------
PendingSync == << "Pending Sync" >>

Synced == << "Synced" >>

\* config.googleSheets.batchSize and config.etl.batchSize, as configured here
SheetBatchSize == 1

EtlBatchSize == 2

cacheExpiryMinutes == 30

\* the time that can pass between two runs
Delays == { 10 * 60 * 1000, 40 * 60 * 1000 }

Row(name, email, phone, course, status) ==
    << << "t" >>, name, email, phone, <<>>, course, <<>>, <<>>, <<>>, status >>

EmailA == << "a", "@", "b", ".", "c", "o" >>

\* student rows: a valid one, one for the same email in another case and with
\* no course, one with an invalid email and one whose phone is a JSON number
StudentRows ==
    { Row(<< "A", "l", " ", "B", "o" >>, EmailA, <<>>, IntroToCS, PendingSync),
      Row(<< "C", "y" >>, << " ", "A", "@", "b", ".", "c", "o" >>, << "5" >>, <<>>,
          PendingSync),
      Row(<< "D", "i", " ", "E" >>, << "a", "@", "b" >>, <<>>, CalculusI, PendingSync) }

ThrowingRow == Row(<< "F", "o" >>, << "f", "@", "b", ".", "c", "o" >>, JsNumber,
                   IntroToCS, PendingSync)

SetCell(row, k, v) ==
    [ j \in 1..(IF Len(row) > k THEN Len(row) ELSE k + 1) |->
        IF j = k + 1 THEN v ELSE IF j <= Len(row) THEN row[j] ELSE <<>> ]

\* the rows a sheet can hold: each with the status Pending Sync or Synced
SheetRows == StudentRows \cup { SetCell(r, 9, Synced) : r \in StudentRows }

\* the rows of a CSV or JSON file: the nine data columns
FileRow(r) == SubSeq(r, 1, 9)

SeqsUpTo(S, n) == UNION { [ 1..k -> S ] : k \in 0..n }

EmptyDb ==
    [ students |-> <<>>, studentSeq |-> 1, enrollments |-> <<>>,
      titanic |-> <<>>, netflix |-> <<>> ]

\* a store that already holds the student of EmailA under another name
SeededDb ==
    [ EmptyDb EXCEPT
        !.students = << [ student_id |-> 1, first_name |-> << "Z", "e" >>,
                          last_name |-> << "Y" >>, email |-> EmailA,
                          phone |-> SqlNull, enrollment_year |-> Num(Float(2)) ] >>,
        !.studentSeq = 2 ]

NoTx == [ open |-> FALSE, db |-> EmptyDb ]

NoCache == [ exists |-> FALSE, mtime |-> 0, data |-> <<>> ]

\* the report before any check ran: no check, no passed, no error
NoReport ==
    [ checks |-> [ rowCount |-> <<>>, duplicates |-> <<>>, nullValues |-> <<>>,
                   dataTypes |-> <<>> ],
      passed |-> <<>>, error |-> "", returned |-> FALSE ]

\* a committed load: its run, the records it was given, the store it found, the
\* store it left and the records of the committed load before it; run 0 for none
Load(run, records, found, left, previous) ==
    [ run |-> run, records |-> records, found |-> found, left |-> left,
      previous |-> previous ]

NoLoad == Load(0, <<>>, EmptyDb, EmptyDb, <<>>)

\* the store and the source as a run found them
Found(store, src) == [ db |-> store, source |-> src ]

\* ------------------------------------------------------------------------
\* runETL: extraction and transformation
\* ------------------------------------------------------------------------
\* isCacheValid(key) and readCache(key): the cached rows, boxed, or <<>> for null
readCache ==
    IF ~enableCaching THEN <<>>
    ELSE IF ~cache.exists THEN <<>>
    ELSE IF now - cache.mtime > cacheExpiryMinutes * 60 * 1000 THEN <<>>
    ELSE << cache.data >>

\* writeCache(key, data): the cache file afterwards
writeCache(data) ==
    IF ~enableCaching THEN cache
    ELSE [ exists |-> TRUE, mtime |-> now, data |-> data ]

\* the rows extractData reads from the configured source
readSource ==
    IF sourceType = "SHEET" THEN source
    ELSE [ k \in 1..Len(source) |-> FileRow(source[k]) \o << PendingSync >> ]

\* transformRow after validateStudentRow returned validation (or threw)
transformed(validation, rowIndex) ==
    IF validation.threw \/ ~validation.valid
    THEN [ threw |-> TRUE, message |-> validation.errors, data |-> <<>> ]
    ELSE [ threw |-> FALSE, message |-> <<>>,
           data |-> ("rowIndex" :> rowIndex) @@ validation.data ]

\* transformRow(row, rowIndex): the data, or the message of the error thrown
transformRow(row, rowIndex) == transformed(validateStudentRow(row), rowIndex)

\* one pass of the TRANSFORM loop of runETL on a Pending Sync row: the try with
\* the result t of transformRow, and its catch
transformStep(acc, rowIndex, t) ==
    IF ~t.threw
    THEN [ acc EXCEPT !.transformedRows = Append(@, t.data),
                      !.processedCount = @ + 1 ]
    ELSE [ acc EXCEPT
             !.errorCount = @ + 1,
             !.sheetUpdates =
                 IF sourceType = "SHEET"
                 THEN Append(@, [ range |-> rowIndex,
                                  values |-> << "Error: " >> \o t.message ])
                 ELSE @ ]

\* the loop with a break in its catch
RECURSIVE transformLoopBreak(_, _, _)
transformLoopBreak(rs, i, acc) ==
    IF i >= Len(rs) THEN acc
    ELSE IF sourceType = "SHEET" /\ Cell(rs[i + 1], 9) # PendingSync
    THEN transformLoopBreak(rs, i + 1, acc)
    ELSE IF transformRow(rs[i + 1], i + 2).threw
    THEN transformStep(acc, i + 2, transformRow(rs[i + 1], i + 2))
    ELSE transformLoopBreak(rs, i + 1,
             transformStep(acc, i + 2, transformRow(rs[i + 1], i + 2)))

\* the loop without its status filter
RECURSIVE transformLoopAll(_, _, _)
transformLoopAll(rs, i, acc) ==
    IF i >= Len(rs) THEN acc
    ELSE transformLoopAll(rs, i + 1,
             transformStep(acc, i + 2, transformRow(rs[i + 1], i + 2)))

\* the TRANSFORM loop of runETL from position i on, acc its variables so far
RECURSIVE transformLoop(_, _, _)
transformLoop(rs, i, acc) ==
    IF i >= Len(rs) THEN acc
    ELSE IF sourceType = "SHEET" /\ Cell(rs[i + 1], 9) # PendingSync
    THEN transformLoop(rs, i + 1, acc)
    ELSE transformLoop(rs, i + 1,
             transformStep(acc, i + 2, transformRow(rs[i + 1], i + 2)))

\* the sheet after one values.batchUpdate request with the updates of batch
RECURSIVE applyUpdates(_, _)
applyUpdates(sheet, batch) ==
    IF batch = <<>> THEN sheet
    ELSE LET u == Head(batch)
         IN  applyUpdates(
                 IF u.range - 1 \in DOMAIN sheet
                 THEN [ sheet EXCEPT ![u.range - 1] = SetCell(@, 9, u.values) ]
                 ELSE sheet,
                 Tail(batch))

\* a slice that runs to the end of the array
sliceToEnd(values, i, n) == SubSeq(values, i + 1, Len(values))

\* values.slice(i, i + batchSize)
slice(values, i, n) == SubSeq(values, i + 1, Min(i + n, Len(values)))

\* ------------------------------------------------------------------------
\* Inputs of the dataset pipelines
\* ------------------------------------------------------------------------
TitanicRow(id, name, age) ==
    [ passengerid |-> id, survived |-> << "1" >>, pclass |-> << "2" >>,
      name |-> name, sex |-> << "m" >>, age |-> age, sibsp |-> << "0" >>,
      parch |-> Undef, ticket |-> << "T" >>, fare |-> << "7", ".", "5" >>,
      cabin |-> <<>>, embarked |-> << "S" >> ]

\* two rows of passenger 1 that differ, a row of passenger 2 and a row without
\* a usable id
TitanicRows ==
    { TitanicRow(<< "1" >>, << "A", "l" >>, << "2", "2" >>),
      TitanicRow(<< "1" >>, << "B", "o" >>, << "x" >>),
      TitanicRow(<< "2" >>, << "C", "y" >>, <<>>),
      TitanicRow(<< "x" >>, << "D", "i" >>, << "3" >>) }

NetflixRow(id, title) ==
    [ show_id |-> id, type |-> << "M" >>, title |-> title, director |-> Undef,
      cast |-> <<>>, country |-> << "U", "S" >>, date_added |-> <<>>,
      release_year |-> << "2", "0", "2", "0" >>, rating |-> << "P", "G" >>,
      duration |-> << "9" >>, listed_in |-> <<>>, description |-> <<>> ]

\* two rows of show s1 that differ (one id with a blank before it), a row of
\* show s2, a row with no id and a row whose id is empty once sanitized
NetflixRows ==
    { NetflixRow(<< "s", "1" >>, << "A" >>),
      NetflixRow(<< " ", "s", "1" >>, << "B" >>),
      NetflixRow(<< "s", "2" >>, << "C" >>),
      NetflixRow(<<>>, << "D" >>),
      NetflixRow(<< "<", ">" >>, << "E" >>) }

MaxFileRows == 3

\* a store that already holds passenger 1, put there with an age of 200 by the
\* loader without validation (the first script of titanic_etl.js), and show s1
LoadedDb ==
    [ EmptyDb EXCEPT
        !.titanic = << [ validateTitanicRow(
                            TitanicRow(<< "1" >>, << "Z" >>, << "9" >>)).data
                         EXCEPT !.age = Num(Float(200)) ] >>,
        !.netflix = << validateNetflixRow(
                          NetflixRow(<< "s", "1" >>, << "Z" >>)).data >> ]

\* ------------------------------------------------------------------------
\* Initial states: the process, its configuration, its source and the store
\* ------------------------------------------------------------------------
\* config.database.maxRetries and config.database.retryDelay, when the
\* environment sets neither
DefaultMaxRetries == 3

DefaultRetryDelay == 1000

\* no call of initializePool, of queryWithRetry or of a validator on its own
\* is under way
IdleRetry ==
    /\ maxRetries = DefaultMaxRetries /\ retryDelay = DefaultRetryDelay
    /\ retries = 0 /\ attempt = 0 /\ lastError = ""
    /\ issued = 0 /\ waits = <<>>
    /\ arg = <<>> /\ outcome = <<>> /\ sent = <<>> /\ procs = <<>>

InitRun ==
    /\ IdleRetry
    /\ tx = NoTx /\ pool = FALSE /\ client = FALSE
    /\ pc = "idle" /\ ret = "" /\ runs = 0
    /\ rows = <<>> /\ transformedRows = <<>> /\ sheetUpdates = <<>>
    /\ processedCount = 0 /\ errorCount = 0 /\ idx = 0
    /\ successCount = 0 /\ loadedCount = 0
    /\ report = NoReport /\ qconfig = <<>>
    /\ error = "" /\ exitCode = 0 /\ faults = 0
    /\ log = <<>> /\ lastLoad = NoLoad
    /\ cache = NoCache /\ now = 0

InitStudents ==
    /\ script = "students"
    /\ sourceType \in { "SHEET", "CSV", "JSON" }
    /\ enableCaching \in BOOLEAN
    /\ source \in
         IF sourceType = "SHEET" THEN SeqsUpTo(SheetRows, MaxRows)
         ELSE IF sourceType = "CSV" THEN SeqsUpTo(StudentRows, MaxRows)
         ELSE SeqsUpTo(StudentRows \cup { ThrowingRow }, MaxRows)
    /\ db \in { EmptyDb, SeededDb }

InitTitanic ==
    /\ script = "titanic" /\ sourceType = "CSV" /\ enableCaching = FALSE
    /\ source \in SeqsUpTo(TitanicRows, MaxFileRows)
    /\ db \in { EmptyDb, LoadedDb }

InitNetflix ==
    /\ script = "netflix" /\ sourceType = "CSV" /\ enableCaching = FALSE
    /\ source \in SeqsUpTo(NetflixRows, MaxFileRows)
    /\ db \in { EmptyDb, LoadedDb }

Init ==
    /\ InitRun
    /\ (InitStudents \/ InitTitanic \/ InitNetflix)
    /\ before = Found(db, source)

\* ------------------------------------------------------------------------
\* The run: runETL, loadTitanic and loadNetflix up to the load
\* ------------------------------------------------------------------------
\* the environment may fail an I/O operation
CanFail == faults < MaxFaults

\* an error caught and dropped where it is thrown
ThrowSwallowed(e, target) ==
    /\ CanFail
    /\ faults' = faults + 1
    /\ error' = error
    /\ pc' = target

\* an error thrown at an await: the run goes on at target with it
Throw(e, target) ==
    /\ CanFail
    /\ faults' = faults + 1
    /\ error' = e
    /\ pc' = target

Logged(op) == log' = Append(log, op)

\* config.googleSheets.rateLimitDelay, in ms
RateLimitDelay == 100

\* sleep(ms)
sleep(ms) == waits' = Append(waits, ms) /\ now' = now + ms

\* node etl/etl.js (or titanic_etl.js, netflix_etl.js) is started
StartRun ==
    /\ pc \in { "idle", "done" }
    /\ runs < MaxRuns
    /\ runs' = runs + 1
    /\ IF runs = 0 THEN now' = now ELSE \E d \in Delays : now' = now + d
    /\ pc' = "initializePool"
    /\ rows' = <<>> /\ transformedRows' = <<>> /\ sheetUpdates' = <<>>
    /\ processedCount' = 0 /\ errorCount' = 0 /\ idx' = 0
    /\ successCount' = 0 /\ loadedCount' = 0
    /\ report' = NoReport /\ qconfig' = <<>>
    /\ error' = "" /\ ret' = "" /\ log' = <<>> /\ before' = Found(db, source)
    /\ sent' = <<>> /\ waits' = <<>>
    /\ UNCHANGED << procs, callVars, maxRetries, retryDelay, retries, attempt, lastError,
                    issued, cfgVars, source, cache, storeVars, exitCode, faults,
                    lastLoad >>

\* initializePool(): the pool is created, then the connection is tested
InitializePool ==
    /\ pc = "initializePool"
    /\ pool' = TRUE
    /\ \/ /\ pc' = "extract"
          /\ Logged("SELECT NOW()")
          /\ UNCHANGED << error, faults >>
       \/ /\ Throw("Database connection failed", "closePool")
          /\ UNCHANGED log
    /\ UNCHANGED << procs, sent, callVars, retryVars, cfgVars, envVars, db, tx, client, ret, runs, runVars,
                    auditVars, exitCode, before, lastLoad >>

\* extractData(): the cached rows when the cache is valid, else the rows of the
\* source, which are then cached; runETL returns when there are none
ExtractData ==
    /\ pc = "extract" /\ script = "students"
    /\ \/ /\ readCache # <<>>
          /\ rows' = readCache[1]
          /\ Logged("readCache")
          /\ pc' = IF Len(rows') = 0 THEN "closePool" ELSE "transform"
          /\ UNCHANGED << cache, error, faults >>
       \/ /\ readCache = <<>>
          /\ rows' = readSource
          /\ cache' = writeCache(rows')
          /\ Logged("read")
          /\ pc' = IF Len(rows') = 0 THEN "closePool" ELSE "transform"
          /\ UNCHANGED << error, faults >>
       \/ /\ readCache = <<>>
          /\ Throw("Failed to read the source", "closePool")
          /\ UNCHANGED << rows, cache, log >>
    /\ UNCHANGED << procs, sent, callVars, retryVars, cfgVars, source, now, storeVars, ret, runs, transformedRows,
                    sheetUpdates, processedCount, errorCount, idx, successCount,
                    loadedCount, auditVars, exitCode, before, lastLoad >>

\* extractTitanicData() and extractNetflixData()
ExtractDataset ==
    /\ pc = "extract" /\ script \in { "titanic", "netflix" }
    /\ \/ /\ rows' = source
          /\ Logged("read")
          /\ pc' = "transform"
          /\ UNCHANGED << error, faults >>
       \/ /\ Throw("Failed to read the source", "closePool")
          /\ UNCHANGED << rows, log >>
    /\ UNCHANGED << procs, sent, callVars, retryVars, cfgVars, envVars, storeVars, ret, runs, transformedRows,
                    sheetUpdates, processedCount, errorCount, idx, successCount,
                    loadedCount, auditVars, exitCode, before, lastLoad >>

\* the return without the write-back of the error statuses
afterTransformNoFlush(r) ==
    IF r.transformedRows = <<>> THEN [ pc |-> "closePool", ret |-> "" ]
    ELSE [ pc |-> "connect", ret |-> "" ]

\* if (transformedRows.length === 0): the error statuses are written back and
\* runETL returns; else it goes on to the load
afterTransform(r) ==
    IF r.transformedRows = <<>>
    THEN IF r.sheetUpdates # <<>> /\ sourceType = "SHEET"
         THEN [ pc |-> "batchUpdateSheet", ret |-> "closePool" ]
         ELSE [ pc |-> "closePool", ret |-> "" ]
    ELSE [ pc |-> "connect", ret |-> "" ]

\* the TRANSFORM loop of runETL and the return when no row is valid
Transform ==
    /\ pc = "transform" /\ script = "students"
    /\ \E r \in { transformLoop(rows, 0,
                      [ transformedRows |-> <<>>, sheetUpdates |-> <<>>,
                        processedCount |-> 0, errorCount |-> 0 ]) } :
           /\ transformedRows' = r.transformedRows
           /\ sheetUpdates' = r.sheetUpdates
           /\ processedCount' = r.processedCount
           /\ errorCount' = r.errorCount
           /\ pc' = afterTransform(r).pc
           /\ ret' = afterTransform(r).ret
    /\ idx' = 0
    /\ Logged("transform")
    /\ UNCHANGED << procs, sent, callVars, retryVars, cfgVars, envVars, storeVars, runs, rows, successCount,
                    loadedCount, auditVars, error, exitCode, faults, before,
                    lastLoad >>

\* transformTitanicData / transformNetflixData and the return when no row is valid
TransformDataset ==
    /\ pc = "transform" /\ script \in { "titanic", "netflix" }
    /\ transformedRows' = IF script = "titanic" THEN transformTitanicData(rows)
                          ELSE transformNetflixData(rows)
    /\ errorCount' = Len(rows) - Len(transformedRows')
    /\ pc' = IF transformedRows' = <<>> THEN "closePool" ELSE "connect"
    /\ idx' = 0
    /\ Logged("transform")
    /\ UNCHANGED << procs, sent, callVars, retryVars, cfgVars, envVars, storeVars, ret, runs, rows, sheetUpdates,
                    processedCount, successCount, loadedCount, auditVars, error,
                    exitCode, faults, before, lastLoad >>

\* ------------------------------------------------------------------------
\* executeTransaction and the loaders
\* ------------------------------------------------------------------------
\* const client = await pool.connect(): a failure here is thrown before the try
Connect ==
    /\ pc = "connect"
    /\ \/ /\ client' = TRUE
          /\ pc' = "begin"
          /\ Logged("connect")
          /\ UNCHANGED << error, faults >>
       \/ /\ Throw("Failed to connect", "closePool")
          /\ UNCHANGED << client, log >>
    /\ UNCHANGED << procs, sent, callVars, retryVars, cfgVars, envVars, db, tx, pool, ret, runs, runVars, auditVars,
                    exitCode, before, lastLoad >>

\* await client.query('BEGIN')
Begin ==
    /\ pc = "begin"
    /\ \/ /\ tx' = [ open |-> TRUE, db |-> db ]
          /\ pc' = "load"
          /\ Logged("BEGIN")
          /\ UNCHANGED << error, faults >>
       \/ /\ Throw("BEGIN failed", "rollback")
          /\ UNCHANGED << tx, log >>
    /\ before' = [ before EXCEPT !.db = db ]
    /\ idx' = 0 /\ successCount' = 0
    /\ UNCHANGED << procs, sent, callVars, retryVars, cfgVars, envVars, db, pool, client, ret, runs, rows,
                    transformedRows, sheetUpdates, processedCount, errorCount,
                    loadedCount, auditVars, exitCode, lastLoad >>

\* the statement a loader issues, on the transaction's view of the store
Statement(rowData) ==
    register_student(tx.db, rowData.firstName, rowData.lastName, rowData.email,
                     rowData.course)

\* loadData: one CALL register_student per accepted row; successCount++ after it
LoadData ==
    /\ pc = "load" /\ script = "students"
    /\ \E r \in { Statement(transformedRows[idx + 1]) } :
           \/ /\ r.error = ""
              /\ tx' = [ tx EXCEPT !.db = r.db ]
              /\ successCount' = successCount + 1
              /\ idx' = idx + 1
              /\ pc' = IF idx' >= Len(transformedRows) THEN "commit" ELSE "load"
              /\ Logged("CALL register_student")
              /\ UNCHANGED << error, faults >>
           \/ /\ r.error # ""
              /\ error' = r.error
              /\ pc' = "rollback"
              /\ Logged("CALL register_student")
              /\ UNCHANGED << tx, successCount, idx, faults >>
           \/ /\ Throw("Query failed", "rollback")
              /\ Logged("statement failed")
              /\ UNCHANGED << tx, successCount, idx >>
    /\ UNCHANGED << procs, sent, callVars, retryVars, cfgVars, envVars, db, pool, client, ret, runs, rows,
                    transformedRows, sheetUpdates, processedCount, errorCount,
                    loadedCount, auditVars, exitCode, before, lastLoad >>

\* the INSERT of loadTitanicData / loadNetflixData on one batch
BatchStatement(batch) ==
    IF script = "titanic" THEN InsertTitanic(tx.db, batch)
    ELSE InsertNetflix(tx.db, batch)

\* loadTitanicData / loadNetflixData: one INSERT per batch of batchSize rows;
\* insertedCount += result.rowCount
LoadBatch ==
    /\ pc = "load" /\ script \in { "titanic", "netflix" }
    /\ sent' = Append(sent, slice(transformedRows, idx, EtlBatchSize))
    /\ \E r \in { BatchStatement(slice(transformedRows, idx, EtlBatchSize)) } :
           \/ /\ r.error = ""
              /\ tx' = [ tx EXCEPT !.db = r.db ]
              /\ successCount' = successCount + r.rowCount
              /\ idx' = idx + EtlBatchSize
              /\ pc' = IF idx' >= Len(transformedRows) THEN "commit" ELSE "load"
              /\ Logged("INSERT")
              /\ UNCHANGED << error, faults >>
           \/ /\ r.error # ""
              /\ error' = r.error
              /\ pc' = "rollback"
              /\ Logged("INSERT")
              /\ UNCHANGED << tx, successCount, idx, faults >>
           \/ /\ Throw("Query failed", "rollback")
              /\ Logged("statement failed")
              /\ UNCHANGED << tx, successCount, idx >>
    /\ UNCHANGED << procs, callVars, retryVars, cfgVars, envVars, db, pool, client, ret, runs, rows,
                    transformedRows, sheetUpdates, processedCount, errorCount,
                    loadedCount, auditVars, exitCode, before, lastLoad >>

\* an optional key of a config or of report.checks: absent, or one value
None == <<>>

Some(x) == << x >>

NoChecks == [ rowCount |-> None, duplicates |-> None, nullValues |-> None,
              dataTypes |-> None ]

\* the configs the three pipelines audit their table with
StudentsConfig ==
    [ tableName |-> "students", expectedRowCount |-> None, rowCountTolerance |-> None,
      uniqueColumn |-> Some("email"),
      requiredColumns |-> Some(<< "first_name", "last_name", "email" >>),
      validations |->
          Some(<< [ column |-> "email", type |-> "email", min |-> {}, max |-> {} ],
                  [ column |-> "enrollment_year", type |-> "numeric",
                    min |-> { 1 }, max |-> { 5 } ] >>) ]

TitanicConfig(validRows) ==
    [ tableName |-> "titanic", expectedRowCount |-> Some(Len(validRows)),
      rowCountTolerance |-> Some(5), uniqueColumn |-> Some("passenger_id"),
      requiredColumns |-> Some(<< "passenger_id", "name" >>),
      validations |->
          Some(<< [ column |-> "survived", type |-> "numeric", min |-> { 0 }, max |-> { 1 } ],
                  [ column |-> "pclass", type |-> "numeric", min |-> { 1 }, max |-> { 3 } ],
                  [ column |-> "age", type |-> "numeric", min |-> { 0 }, max |-> { 150 } ],
                  [ column |-> "fare", type |-> "numeric", min |-> { 0 }, max |-> {} ] >>) ]

NetflixConfig(validRows) ==
    [ tableName |-> "netflix", expectedRowCount |-> Some(Len(validRows)),
      rowCountTolerance |-> Some(10), uniqueColumn |-> Some("show_id"),
      requiredColumns |-> Some(<< "show_id", "title" >>),
      validations |->
          Some(<< [ column |-> "release_year", type |-> "numeric",
                    min |-> { 1900 }, max |-> { 2030 } ] >>) ]

PipelineConfig ==
    IF script = "students" THEN StudentsConfig
    ELSE IF script = "titanic" THEN TitanicConfig(transformedRows)
    ELSE NetflixConfig(transformedRows)

\* 'Synced' updates addressed one row too high
RECURSIVE syncedUpdatesShifted(_)
syncedUpdatesShifted(rs) ==
    IF rs = <<>> THEN <<>>
    ELSE << [ range |-> Head(rs).rowIndex - 1, values |-> Synced ] >>
         \o syncedUpdatesShifted(Tail(rs))

\* the 'Synced' updates runETL pushes for the loaded rows
RECURSIVE syncedUpdates(_)
syncedUpdates(rs) ==
    IF rs = <<>> THEN <<>>
    ELSE << [ range |-> Head(rs).rowIndex, values |-> Synced ] >>
         \o syncedUpdates(Tail(rs))

\* await client.query('COMMIT'), client.release(), and what the run does with
\* the loader's result before its next await
Commit ==
    /\ pc = "commit"
    /\ \/ /\ db' = tx.db
          /\ tx' = NoTx
          /\ client' = FALSE
          /\ loadedCount' = successCount
          /\ lastLoad' = Load(runs, transformedRows, db, tx.db, lastLoad.records)
          /\ Logged("COMMIT")
          /\ IF script = "students" /\ sourceType = "SHEET"
             THEN /\ sheetUpdates' = sheetUpdates \o syncedUpdates(transformedRows)
                  /\ pc' = "batchUpdateSheet"
                  /\ ret' = "audit.rowCount"
             ELSE /\ pc' = "audit.rowCount"
                  /\ UNCHANGED << sheetUpdates, ret >>
          /\ idx' = 0
          /\ qconfig' = PipelineConfig
          /\ UNCHANGED << error, faults >>
       \/ /\ Throw("COMMIT failed", "rollback")
          /\ UNCHANGED << db, tx, client, loadedCount, lastLoad, log, sheetUpdates,
                          ret, idx, qconfig >>
    /\ UNCHANGED << procs, sent, callVars, retryVars, cfgVars, envVars, pool, runs, rows, transformedRows,
                    processedCount, errorCount, successCount, report,
                    exitCode, before >>

\* the catch of executeTransaction starting the transaction over
RollbackRetrying ==
    /\ pc = "rollback"
    /\ db' = IF tx.open THEN [ db EXCEPT !.studentSeq = tx.db.studentSeq ] ELSE db
    /\ tx' = NoTx
    /\ client' = FALSE
    /\ pc' = "connect"
    /\ Logged("ROLLBACK")
    /\ UNCHANGED << error, faults >>
    /\ UNCHANGED << procs, sent, callVars, retryVars, cfgVars, envVars, pool, ret, runs, runVars, auditVars,
                    exitCode, before, lastLoad >>

\* executeTransaction without its finally: the client is not released
RollbackHolding ==
    /\ pc = "rollback"
    /\ db' = IF tx.open THEN [ db EXCEPT !.studentSeq = tx.db.studentSeq ] ELSE db
    /\ tx' = NoTx
    /\ client' = client
    /\ pc' = "closePool"
    /\ Logged("ROLLBACK")
    /\ UNCHANGED << error, faults >>
    /\ UNCHANGED << procs, sent, callVars, retryVars, cfgVars, envVars, pool, ret, runs, runVars, auditVars,
                    exitCode, before, lastLoad >>

\* a run that goes on to write 'Synced' after the ROLLBACK
RollbackSyncing ==
    /\ pc = "rollback"
    /\ db' = IF tx.open THEN [ db EXCEPT !.studentSeq = tx.db.studentSeq ] ELSE db
    /\ tx' = NoTx
    /\ client' = FALSE
    /\ IF script = "students" /\ sourceType = "SHEET"
       THEN /\ sheetUpdates' = sheetUpdates \o syncedUpdates(transformedRows)
            /\ idx' = 0
            /\ pc' = "batchUpdateSheet"
            /\ ret' = "closePool"
       ELSE /\ pc' = "closePool"
            /\ UNCHANGED << sheetUpdates, idx, ret >>
    /\ Logged("ROLLBACK")
    /\ UNCHANGED << error, faults >>
    /\ UNCHANGED << procs, sent, callVars, retryVars, cfgVars, envVars, pool, runs, rows,
                    transformedRows, processedCount, errorCount, successCount,
                    loadedCount, auditVars, exitCode, before, lastLoad >>

\* the catch of executeTransaction with COMMIT in the place of ROLLBACK
RollbackKeeping ==
    /\ pc = "rollback"
    /\ db' = IF tx.open THEN tx.db ELSE db
    /\ tx' = NoTx
    /\ client' = FALSE
    /\ pc' = "closePool"
    /\ Logged("ROLLBACK")
    /\ UNCHANGED << error, faults >>
    /\ UNCHANGED << procs, sent, callVars, retryVars, cfgVars, envVars, pool, ret, runs, runVars, auditVars,
                    exitCode, before, lastLoad >>

\* the catch and finally of executeTransaction: ROLLBACK, release, rethrow.
\* Values taken from a sequence are not given back.
Rollback ==
    /\ pc = "rollback"
    /\ db' = IF tx.open THEN [ db EXCEPT !.studentSeq = tx.db.studentSeq ] ELSE db
    /\ tx' = NoTx
    /\ client' = FALSE
    /\ pc' = "closePool"
    /\ Logged("ROLLBACK")
    /\ \/ UNCHANGED << error, faults >>
       \/ /\ CanFail
          /\ faults' = faults + 1
          /\ error' = "ROLLBACK failed"
    /\ UNCHANGED << procs, sent, callVars, retryVars, cfgVars, envVars, pool, ret, runs, runVars, auditVars,
                    exitCode, before, lastLoad >>

\* batchUpdateSheet sleeping after every request, the last one too
BatchUpdateSheetSleeping ==
    /\ pc = "batchUpdateSheet"
    /\ \/ /\ source' = applyUpdates(source, slice(sheetUpdates, idx, SheetBatchSize))
          /\ sent' = Append(sent, slice(sheetUpdates, idx, SheetBatchSize))
          /\ idx' = idx + SheetBatchSize
          /\ pc' = IF idx' >= Len(sheetUpdates) THEN ret ELSE "batchUpdateSheet"
          /\ sleep(RateLimitDelay)
          /\ Logged("batchUpdate")
          /\ UNCHANGED << error, faults >>
       \/ /\ Throw("Failed to update the sheet", "closePool")
          /\ UNCHANGED << source, idx, log, sent, waits, now >>
    /\ UNCHANGED << procs, callVars, maxRetries, retryDelay, retries, attempt, lastError,
                    issued, cfgVars, cache, storeVars, ret, runs, rows,
                    transformedRows, sheetUpdates, processedCount, errorCount,
                    successCount, loadedCount, auditVars, exitCode, before,
                    lastLoad >>

\* batchUpdateSheet(updates): one values.batchUpdate request per batch of
\* batchSize updates, a sleep of rateLimitDelay when more updates are left,
\* then back to the caller
BatchUpdateSheet ==
    /\ pc = "batchUpdateSheet"
    /\ \/ /\ source' = applyUpdates(source, slice(sheetUpdates, idx, SheetBatchSize))
          /\ sent' = Append(sent, slice(sheetUpdates, idx, SheetBatchSize))
          /\ idx' = idx + SheetBatchSize
          /\ pc' = IF idx' >= Len(sheetUpdates) THEN ret ELSE "batchUpdateSheet"
          /\ IF idx + SheetBatchSize < Len(sheetUpdates)
             THEN sleep(RateLimitDelay)
             ELSE UNCHANGED << waits, now >>
          /\ Logged("batchUpdate")
          /\ UNCHANGED << error, faults >>
       \/ /\ Throw("Failed to update the sheet", "closePool")
          /\ UNCHANGED << source, idx, log, sent, waits, now >>
    /\ UNCHANGED << procs, callVars, maxRetries, retryDelay, retries, attempt, lastError,
                    issued, cfgVars, cache, storeVars, ret, runs, rows,
                    transformedRows, sheetUpdates, processedCount, errorCount,
                    successCount, loadedCount, auditVars, exitCode, before,
                    lastLoad >>

\* the exit with 1 also when a row was rejected
ClosePoolCounting ==
    /\ pc = "closePool"
    /\ pool' = FALSE
    /\ exitCode' = IF error = "" /\ errorCount = 0 THEN 0 ELSE 1
    /\ pc' = "done"
    /\ UNCHANGED << procs, sent, callVars, retryVars, cfgVars, envVars, db, tx, client, ret, runs, runVars,
                    auditVars, error, faults, histVars >>

\* the exit with 1 also when the quality report did not pass
ClosePoolStrict ==
    /\ pc = "closePool"
    /\ pool' = FALSE
    /\ exitCode' = IF error = "" /\ report.passed # Some(FALSE) THEN 0 ELSE 1
    /\ pc' = "done"
    /\ UNCHANGED << procs, sent, callVars, retryVars, cfgVars, envVars, db, tx, client, ret, runs, runVars,
                    auditVars, error, faults, histVars >>

\* finally: await closePool(); then the process exits with 0, or with 1 when
\* the run threw
ClosePool ==
    /\ pc = "closePool"
    /\ pool' = FALSE
    /\ exitCode' = IF error = "" THEN 0 ELSE 1
    /\ pc' = "done"
    /\ UNCHANGED << procs, sent, callVars, retryVars, cfgVars, envVars, db, tx, client, ret, runs, runVars,
                    auditVars, error, faults, histVars >>

\* ------------------------------------------------------------------------
\* The quality auditor (quality.js)
\* ------------------------------------------------------------------------
RowCountResult(expectedCount, actualCount, diff, tolerance) ==
    [ valid |-> ~(diff > tolerance), expected |-> expectedCount,
      actual |-> actualCount, difference |-> diff ]

CountCompared(expectedCount, actualCount, tolerance) ==
    RowCountResult(expectedCount, actualCount, Abs(actualCount - expectedCount),
                   tolerance)

\* the check with < in the place of <=
verifyRowCountStrict(tableName, expectedCount, tolerance) ==
    [ valid |-> Abs(Len(db[tableName]) - expectedCount) < tolerance,
      expected |-> expectedCount, actual |-> Len(db[tableName]),
      difference |-> Abs(Len(db[tableName]) - expectedCount) ]

\* SELECT COUNT(*) FROM tableName, compared with expectedCount
verifyRowCount(tableName, expectedCount, tolerance) ==
    CountCompared(expectedCount, Len(db[tableName]), tolerance)

\* the query without its GROUP BY: one row for each row of a repeated value
DuplicateRows(table, uniqueColumn) ==
    { [ value |-> table[i][uniqueColumn], count |-> 1, row |-> i ] :
      i \in { j \in DOMAIN table :
                Cardinality(Matching(table, uniqueColumn, table[j][uniqueColumn])) > 1 } }

\* the rows of SELECT col, COUNT(*) FROM tableName GROUP BY col HAVING COUNT(*) > 1
DuplicateGroups(table, uniqueColumn) ==
    { [ value |-> table[i][uniqueColumn],
        count |-> Cardinality(Matching(table, uniqueColumn, table[i][uniqueColumn])) ] :
      i \in { j \in DOMAIN table :
                Cardinality(Matching(table, uniqueColumn, table[j][uniqueColumn])) > 1 } }

DuplicatesResult(result) ==
    [ hasDuplicates |-> Cardinality(result) > 0, count |-> Cardinality(result),
      duplicates |-> result ]

checkDuplicates(tableName, uniqueColumn) ==
    DuplicatesResult(DuplicateGroups(db[tableName], uniqueColumn))

\* SELECT COUNT(*) FROM tableName WHERE column IS NULL, for each column
checkNullValues(tableName, columns) ==
    [ column \in Range(columns) |->
        Cardinality(Matching(db[tableName], column, SqlNull)) ]

\* column !~ '^[A-Za-z0-9._%+-]+@[A-Za-z0-9.-]+\.[A-Za-z]{2,}$'
IsRegexLocalChar(c) == IsLetter(c) \/ IsDigit(c) \/ c \in { ".", "_", "%", "+", "-" }

IsRegexDomainChar(c) == IsLetter(c) \/ IsDigit(c) \/ c \in { ".", "-" }

MatchesEmailRegex(s) ==
    \E a \in DOMAIN s, d \in DOMAIN s :
        /\ s[a] = "@" /\ s[d] = "." /\ a > 1 /\ d > a + 1 /\ Len(s) - d >= 2
        /\ \A i \in 1..(a - 1) : IsRegexLocalChar(s[i])
        /\ \A i \in (a + 1)..(d - 1) : IsRegexDomainChar(s[i])
        /\ \A i \in (d + 1)..Len(s) : IsLetter(s[i])

\* the rows one validation of validateDataTypes counts
Offending(table, validation) ==
    { i \in DOMAIN table :
        /\ table[i][validation.column] # SqlNull
        /\ IF validation.type = "numeric"
           THEN \/ \E m \in validation.min :
                      FloatLess(table[i][validation.column][2], m)
                \/ \E m \in validation.max :
                      FloatGreater(table[i][validation.column][2], m)
           ELSE validation.type = "email"
                    /\ ~MatchesEmailRegex(table[i][validation.column]) }

\* the validation is one validateDataTypes runs a query for
IsChecked(validation) ==
    \/ validation.type = "email"
    \/ /\ validation.type = "numeric"
       /\ validation.min \cup validation.max # {}

Issue(validation, count) ==
    IF IsChecked(validation) /\ count > 0
    THEN << [ column |-> validation.column,
              issue |-> IF validation.type = "numeric" THEN "out_of_range"
                        ELSE "invalid_format",
              count |-> count ] >>
    ELSE <<>>

RECURSIVE dataTypeIssues(_, _)
dataTypeIssues(tableName, validations) ==
    IF validations = <<>> THEN <<>>
    ELSE Issue(Head(validations),
               Cardinality(Offending(db[tableName], Head(validations))))
         \o dataTypeIssues(tableName, Tail(validations))

DataTypesResult(issues) == [ valid |-> Len(issues) = 0, issues |-> issues ]

validateDataTypes(tableName, validations) ==
    DataTypesResult(dataTypeIssues(tableName, validations))

\* report.passed with the null counts taken into it
OverallWithNulls(checks) ==
    /\ (checks.rowCount = None \/ checks.rowCount[1].valid)
    /\ (checks.duplicates = None \/ ~checks.duplicates[1].hasDuplicates)
    /\ (checks.nullValues = None
            \/ \A c \in DOMAIN checks.nullValues[1] : checks.nullValues[1][c] = 0)
    /\ (checks.dataTypes = None \/ checks.dataTypes[1].valid)

\* report.passed as generateQualityReport sets it after the last check
Overall(checks) ==
    /\ (checks.rowCount = None \/ checks.rowCount[1].valid)
    /\ (checks.duplicates = None \/ ~checks.duplicates[1].hasDuplicates)
    /\ (checks.dataTypes = None \/ checks.dataTypes[1].valid)

\* the catch returning a fresh report: the checks done so far are lost
CheckThrowsDropping ==
    /\ CanFail
    /\ faults' = faults + 1
    /\ report' = [ NoReport EXCEPT !.error = "Query failed", !.passed = Some(FALSE),
                                   !.returned = TRUE ]
    /\ pc' = "closePool"
    /\ UNCHANGED log

\* a check threw: the catch of generateQualityReport returns the report with
\* the error and passed = false; the run goes on
CheckThrows ==
    /\ CanFail
    /\ faults' = faults + 1
    /\ report' = [ report EXCEPT !.error = "Query failed", !.passed = Some(FALSE),
                                 !.returned = TRUE ]
    /\ pc' = "closePool"
    /\ UNCHANGED log

\* the last check is done: report.passed is set and the report returned
Finish(checks) ==
    [ checks |-> checks, passed |-> Some(Overall(checks)), error |-> "",
      returned |-> TRUE ]

\* if (config.expectedRowCount) report.checks.rowCount = await verifyRowCount(...)
AuditRowCount ==
    /\ pc = "audit.rowCount"
    /\ IF qconfig.expectedRowCount # None /\ qconfig.expectedRowCount[1] # 0
       THEN \/ /\ report' =
                    [ report EXCEPT !.checks.rowCount =
                        Some(verifyRowCount(qconfig.tableName,
                                 qconfig.expectedRowCount[1],
                                 IF qconfig.rowCountTolerance # None
                                 THEN qconfig.rowCountTolerance[1] ELSE 0)) ]
               /\ pc' = "audit.duplicates"
               /\ Logged("SELECT COUNT(*)")
               /\ UNCHANGED faults
            \/ CheckThrows
       ELSE /\ pc' = "audit.duplicates"
            /\ UNCHANGED << report, log, faults >>
    /\ UNCHANGED << procs, sent, callVars, retryVars, cfgVars, envVars, storeVars, ret, runs, runVars, qconfig,
                    error, exitCode, before, lastLoad >>

\* if (config.uniqueColumn) report.checks.duplicates = await checkDuplicates(...)
AuditDuplicates ==
    /\ pc = "audit.duplicates"
    /\ IF qconfig.uniqueColumn # None /\ qconfig.uniqueColumn[1] # ""
       THEN \/ /\ report' =
                    [ report EXCEPT !.checks.duplicates =
                        Some(checkDuplicates(qconfig.tableName,
                                             qconfig.uniqueColumn[1])) ]
               /\ pc' = "audit.nullValues"
               /\ Logged("SELECT GROUP BY")
               /\ UNCHANGED faults
            \/ CheckThrows
       ELSE /\ pc' = "audit.nullValues"
            /\ UNCHANGED << report, log, faults >>
    /\ UNCHANGED << procs, sent, callVars, retryVars, cfgVars, envVars, storeVars, ret, runs, runVars, qconfig,
                    error, exitCode, before, lastLoad >>

\* if (config.requiredColumns) report.checks.nullValues = await checkNullValues(...)
AuditNullValues ==
    /\ pc = "audit.nullValues"
    /\ IF qconfig.requiredColumns # None
       THEN \/ /\ report' =
                    [ report EXCEPT !.checks.nullValues =
                        Some(checkNullValues(qconfig.tableName,
                                             qconfig.requiredColumns[1])) ]
               /\ pc' = "audit.dataTypes"
               /\ Logged("SELECT IS NULL")
               /\ UNCHANGED faults
            \/ CheckThrows
       ELSE /\ pc' = "audit.dataTypes"
            /\ UNCHANGED << report, log, faults >>
    /\ UNCHANGED << procs, sent, callVars, retryVars, cfgVars, envVars, storeVars, ret, runs, runVars, qconfig,
                    error, exitCode, before, lastLoad >>

\* if (config.validations) report.checks.dataTypes = await validateDataTypes(...);
\* then report.passed is computed and the report returned
AuditDataTypes ==
    /\ pc = "audit.dataTypes"
    /\ IF qconfig.validations # None
       THEN \/ /\ report' =
                    Finish([ report.checks EXCEPT !.dataTypes =
                        Some(validateDataTypes(qconfig.tableName,
                                               qconfig.validations[1])) ])
               /\ pc' = "closePool"
               /\ Logged("SELECT out of range")
               /\ UNCHANGED faults
            \/ CheckThrows
       ELSE /\ report' = Finish(report.checks)
            /\ pc' = "closePool"
            /\ UNCHANGED << log, faults >>
    /\ UNCHANGED << procs, sent, callVars, retryVars, cfgVars, envVars, storeVars, ret, runs, runVars, qconfig,
                    error, exitCode, before, lastLoad >>

\* ------------------------------------------------------------------------
\* Specification
\* ------------------------------------------------------------------------
Next ==
    \/ StartRun
    \/ InitializePool
    \/ ExtractData
    \/ ExtractDataset
    \/ Transform
    \/ TransformDataset
    \/ Connect
    \/ Begin
    \/ LoadData
    \/ LoadBatch
    \/ Commit
    \/ Rollback
    \/ BatchUpdateSheet
    \/ AuditRowCount
    \/ AuditDuplicates
    \/ AuditNullValues
    \/ AuditDataTypes
    \/ ClosePool

Spec == Init /\ [][Next]_vars

\* ------------------------------------------------------------------------
\* Properties
\* ------------------------------------------------------------------------
\* the rows of a store, without the state of its sequences
Rows(store) ==
    [ students |-> store.students, enrollments |-> store.enrollments,
      titanic |-> store.titanic, netflix |-> store.netflix ]

\* the errors a statement raises because of the data it is given
StatementErrors ==
    { "unique_violation", "not_null_violation", "string_data_right_truncation" }

\* the run is past its load: it failed, or it is over
AfterLoad == pc \in { "rollback", "closePool", "done" }

\* C1: a committed load of the records that the committed load before it was
\* given leaves the rows of the store as it found them, and a load of the
\* records of the last committed load raises no statement error (students,
\* titanic and netflix alike)
IdempotentLoad ==
    /\ (lastLoad.run # 0 /\ lastLoad.previous = lastLoad.records)
           => Rows(lastLoad.left) = Rows(lastLoad.found)
    /\ (lastLoad.run # 0 /\ lastLoad.run < runs
            /\ transformedRows = lastLoad.records /\ AfterLoad)
           => error \notin StatementErrors

\* the titanic loader committed the same three records, two of them of one
\* passenger, in two runs
IdempotentLoadWitness ==
    /\ script = "titanic" /\ lastLoad.run = 2 /\ pc = "done" /\ exitCode = 0
    /\ lastLoad.previous = lastLoad.records
    /\ Len(lastLoad.records) = 3
    /\ Len(db.titanic) = 2

\* C2: when a statement of a load failed, the store afterwards holds the rows
\* it held before the load and no transaction is open, the error is thrown on
\* to the run, and the run ends with exit status 1
AtomicLoad ==
    (pc \in { "closePool", "done" }
        /\ ("statement failed" \in Range(log) \/ error \in StatementErrors))
        => /\ Rows(db) = Rows(before.db)
           /\ tx = NoTx
           /\ error # ""
           /\ (pc = "done" => exitCode = 1)

\* a titanic load failed at its second statement, after its first had put a
\* row into the table
AtomicLoadWitness ==
    /\ script = "titanic" /\ pc = "done" /\ exitCode = 1
    /\ "statement failed" \in Range(log)
    /\ successCount > 0
    /\ db.titanic = <<>>

\* no two rows of store share the key of their table
UniqueKeys(store) ==
    /\ \A i, j \in DOMAIN store.students :
           i # j => store.students[i].email # store.students[j].email
    /\ \A i, j \in DOMAIN store.titanic :
           i # j => store.titanic[i].passenger_id # store.titanic[j].passenger_id
    /\ \A i, j \in DOMAIN store.netflix :
           i # j => store.netflix[i].show_id # store.netflix[j].show_id

\* C3: in every state of the store, committed or within a transaction, no two
\* students share an email, no two titanic rows a passenger_id and no two
\* netflix rows a show_id; and no load fails with a uniqueness violation
NoUniquenessViolation ==
    /\ UniqueKeys(db)
    /\ (tx.open => UniqueKeys(tx.db))
    /\ error # "unique_violation"

\* a students load of two records of one email, which the store already held,
\* committed
NoUniquenessViolationWitness ==
    /\ script = "students" /\ pc = "done" /\ exitCode = 0
    /\ lastLoad.run = runs
    /\ Len(lastLoad.records) = 2
    /\ lastLoad.records[1].email = lastLoad.records[2].email
    /\ Matching(lastLoad.found.students, "email", lastLoad.records[1].email) # {}
    /\ Len(db.students) = 1

\* the table a pipeline loads
TableOf(s) == IF s = "students" THEN "students"
              ELSE IF s = "titanic" THEN "titanic" ELSE "netflix"

\* C4: the count a loader returned is the number of rows its load added to
\* the table
CountIsInserted ==
    (lastLoad.run # 0 /\ lastLoad.run = runs)
        => loadedCount = Len(lastLoad.left[TableOf(script)])
                             - Len(lastLoad.found[TableOf(script)])

\* C4 for the loaders of titanic and netflix alone
CountIsInsertedDatasets == script \in { "titanic", "netflix" } => CountIsInserted

\* the run has gone through its transformation
Transformed == "transform" \in Range(log)

\* the row is one the TRANSFORM loop processes: any row of a file, a row of
\* the sheet whose status is Pending Sync
Eligible(row) ==
    script = "students" /\ sourceType = "SHEET" => Cell(row, 9) = PendingSync

\* the validation of the row, taken alone, returned valid
Accepts(row) ==
    IF script = "students"
    THEN Eligible(row) /\ validateStudentRow(row).valid
    ELSE IF script = "titanic" THEN validateTitanicRow(row).valid
    ELSE validateNetflixRow(row).valid
             /\ Truthy(validateNetflixRow(row).data.show_id)

\* the record of an accepted row at position i of the extracted rows
RecordOf(row, i) ==
    IF script = "students"
    THEN ("rowIndex" :> (i + 1)) @@ validateStudentRow(row).data
    ELSE IF script = "titanic" THEN validateTitanicRow(row).data
    ELSE validateNetflixRow(row).data

AcceptedIndexes == { i \in DOMAIN rows : Accepts(rows[i]) }

\* the position of the k-th accepted row
NthAccepted(k) ==
    CHOOSE i \in AcceptedIndexes :
        Cardinality({ j \in AcceptedIndexes : j < i }) = k - 1

QuietOps == { "SELECT NOW()", "read", "readCache", "transform", "batchUpdate" }

\* C6: a run that has transformed its rows and accepted none starts no load
\* and no audit; when it ends without error its exit status is 0 and, for the
\* sheet, every error status it gathered is in the status cell of its row
NoneAccepted ==
    (Transformed /\ transformedRows = <<>>) =>
        /\ Range(log) \subseteq QuietOps
        /\ report = NoReport
        /\ lastLoad.run < runs
        /\ db = before.db
        /\ sourceType # "SHEET" => "batchUpdate" \notin Range(log)
        /\ (pc = "done" /\ error = "") =>
               /\ exitCode = 0
               /\ sourceType = "SHEET" =>
                      /\ Len(sheetUpdates) = errorCount
                      /\ \A k \in DOMAIN sheetUpdates :
                             Cell(source[sheetUpdates[k].range - 1], 9)
                                 = sheetUpdates[k].values

\* a sheet run rejected both its rows, wrote the two error statuses back and
\* ended with exit status 0
NoneAcceptedWitness ==
    /\ script = "students" /\ sourceType = "SHEET" /\ pc = "done" /\ exitCode = 0
    /\ error = ""
    /\ Transformed /\ transformedRows = <<>>
    /\ errorCount = 2
    /\ Cell(source[1], 9) # PendingSync /\ Cell(source[2], 9) # PendingSync
    /\ Cell(source[1], 9) # Synced

AllSynced(sheet) ==
    sheet # <<>> /\ \A i \in DOMAIN sheet : Cell(sheet[i], 9) = Synced

\* C8: a sheet run after the first that finds every row of the sheet Synced
\* processes no row, starts no load and no audit, writes no status back and,
\* when it ends without error, ends with exit status 0
ResyncIsNoOp ==
    (script = "students" /\ sourceType = "SHEET" /\ runs >= 2 /\ pc # "idle"
        /\ AllSynced(before.source))
        => /\ processedCount = 0 /\ errorCount = 0
           /\ transformedRows = <<>> /\ sheetUpdates = <<>>
           /\ Range(log) \subseteq QuietOps \ { "batchUpdate" }
           /\ report = NoReport
           /\ lastLoad.run < runs
           /\ (pc = "done" /\ error = "") => exitCode = 0

\* C8 with the cache of extractData off
ResyncIsNoOpUncached == ~enableCaching => ResyncIsNoOp

\* ------------------------------------------------------------------------
\* generateQualityReport on its own: any store a load can leave, any config
\* ------------------------------------------------------------------------
MaxExpected == 3

MaxTolerance == 1

\* the titanic tables the loader leaves from the rows of a file, which may
\* hold a third passenger of the name of the first
QualityStores ==
    { Inserted(EmptyDb, "titanic",
               InsertDoNothing(<<>>, transformTitanicData(s), "passenger_id", 0)).db :
        s \in SeqsUpTo(TitanicRows
                         \cup { TitanicRow(<< "3" >>, << "A", "l" >>, << "3" >>) },
                       MaxFileRows) }

QualityConfigs ==
    [ tableName : { "titanic" },
      expectedRowCount : { None } \cup { Some(n) : n \in 0..MaxExpected },
      rowCountTolerance : { None } \cup { Some(n) : n \in 0..MaxTolerance },
      uniqueColumn : { None, Some("passenger_id"), Some("sex"), Some("name") },
      requiredColumns : { None, Some(<< "name", "age" >>) },
      validations :
          { None,
            Some(<< [ column |-> "age", type |-> "numeric", min |-> { 0 },
                      max |-> { 10 } ] >>) } ]

InitQuality ==
    /\ IdleRetry
    /\ script = "titanic" /\ sourceType = "CSV" /\ enableCaching = FALSE
    /\ source = <<>> /\ cache = NoCache /\ now = 0
    /\ db \in QualityStores
    /\ tx = NoTx /\ pool = TRUE /\ client = FALSE
    /\ pc = "audit.rowCount" /\ ret = "" /\ runs = 1
    /\ rows = <<>> /\ transformedRows = <<>> /\ sheetUpdates = <<>>
    /\ processedCount = 0 /\ errorCount = 0 /\ idx = 0
    /\ successCount = 0 /\ loadedCount = 0
    /\ report = NoReport
    /\ qconfig \in QualityConfigs
    /\ error = "" /\ exitCode = 0 /\ faults = 0
    /\ log = <<>> /\ before = Found(db, source) /\ lastLoad = NoLoad

NextQuality ==
    \/ AuditRowCount
    \/ AuditDuplicates
    \/ AuditNullValues
    \/ AuditDataTypes

SpecQuality == InitQuality /\ [][NextQuality]_vars

\* C9: the passed of a report returned without an error is the conjunction of
\* "rowCount absent or valid", "duplicates absent or without duplicates" and
\* "dataTypes absent or valid"; the null counts are no part of it
PassedIgnoresNulls ==
    (report.returned /\ report.error = "") =>
        report.passed =
            Some(/\ (report.checks.rowCount = None
                        \/ report.checks.rowCount[1].valid)
                 /\ (report.checks.duplicates = None
                        \/ ~report.checks.duplicates[1].hasDuplicates)
                 /\ (report.checks.dataTypes = None
                        \/ report.checks.dataTypes[1].valid))

\* a report with all four checks passed although a required column holds a NULL
PassedIgnoresNullsWitness ==
    /\ report.returned /\ report.error = ""
    /\ report.passed = Some(TRUE)
    /\ report.checks.rowCount # None /\ report.checks.duplicates # None
    /\ report.checks.dataTypes # None
    /\ report.checks.nullValues # None
    /\ report.checks.nullValues[1]["age"] > 0

\* the tolerance generateQualityReport hands to verifyRowCount
ConfiguredTolerance ==
    IF qconfig.rowCountTolerance = None THEN 0 ELSE qconfig.rowCountTolerance[1]

\* C10: the row-count check, when it ran, is valid exactly when the count of
\* the table differs from the expected count by at most the tolerance (0 when
\* none is configured), and it reports the expected count, the actual count
\* and their absolute difference
RowCountTolerance ==
    report.checks.rowCount # None =>
        LET result == report.checks.rowCount[1]
            expected == qconfig.expectedRowCount[1]
            actual == Len(db[qconfig.tableName])
        IN  /\ result.valid <=> (Abs(actual - expected) <= ConfiguredTolerance)
            /\ result.expected = expected
            /\ result.actual = actual
            /\ result.difference = Abs(actual - expected)

\* a count one off the expected count is valid under a tolerance of 1
RowCountToleranceWitness ==
    /\ report.checks.rowCount # None
    /\ report.checks.rowCount[1].valid
    /\ report.checks.rowCount[1].difference = 1
    /\ qconfig.rowCountTolerance = Some(1)

\* a count one off the expected count is invalid when no tolerance is configured
RowCountNoToleranceWitness ==
    /\ report.checks.rowCount # None
    /\ ~report.checks.rowCount[1].valid
    /\ report.checks.rowCount[1].difference = 1
    /\ qconfig.rowCountTolerance = None

\* the key of the config is present
HasKey(key) == qconfig[key] # None

\* the check is in report.checks
HasCheck(check) == report.checks[check] # None

\* C11: in a report returned without an error each check is in report.checks
\* exactly when its key is in the config, whatever the value of the key:
\* rowCount with expectedRowCount (0 included), duplicates with uniqueColumn,
\* nullValues with requiredColumns, dataTypes with validations
ChecksFollowKeys ==
    (report.returned /\ report.error = "") =>
        /\ HasCheck("rowCount") <=> HasKey("expectedRowCount")
        /\ HasCheck("duplicates") <=> HasKey("uniqueColumn")
        /\ HasCheck("nullValues") <=> HasKey("requiredColumns")
        /\ HasCheck("dataTypes") <=> HasKey("validations")

\* C11 with the row count check tied to an expected count other than 0
ChecksFollowTruthyKeys ==
    (report.returned /\ report.error = "") =>
        /\ HasCheck("rowCount") <=>
               (HasKey("expectedRowCount") /\ qconfig.expectedRowCount[1] # 0)
        /\ HasCheck("duplicates") <=> HasKey("uniqueColumn")
        /\ HasCheck("nullValues") <=> HasKey("requiredColumns")
        /\ HasCheck("dataTypes") <=> HasKey("validations")

\* the values of the unique column that more than one row of the table holds
RepeatedValues(table, column) ==
    { v \in { table[i][column] : i \in DOMAIN table } :
        Cardinality({ i \in DOMAIN table : table[i][column] = v }) > 1 }

\* C12: the duplicates check, when it ran, reports hasDuplicates exactly when
\* some value of the unique column is held by more than one row, and its count
\* is the number of such values (0 when there is none), not the number of
\* surplus rows
DuplicateGroupsCounted ==
    HasCheck("duplicates") =>
        /\ report.checks.duplicates[1].hasDuplicates
               <=> RepeatedValues(db[qconfig.tableName], qconfig.uniqueColumn[1]) # {}
        /\ report.checks.duplicates[1].count
               = Cardinality(RepeatedValues(db[qconfig.tableName],
                                            qconfig.uniqueColumn[1]))

\* three rows of one sex: one group is counted, not two surplus rows
DuplicateGroupsCountedWitness ==
    /\ HasCheck("duplicates")
    /\ qconfig.uniqueColumn = Some("sex")
    /\ Len(db.titanic) = 3
    /\ report.checks.duplicates[1].hasDuplicates
    /\ report.checks.duplicates[1].count = 1

\* names [a, b, a]: one group
DuplicateNamesWitness ==
    /\ HasCheck("duplicates")
    /\ qconfig.uniqueColumn = Some("name")
    /\ Len(db.titanic) = 3
    /\ report.checks.duplicates[1].count = 1

\* the checks of generateQualityReport in the order it runs them, the key that
\* starts each and the query each issues
CheckOrder == << "rowCount", "duplicates", "nullValues", "dataTypes" >>

KeyOf(check) ==
    IF check = "rowCount" THEN "expectedRowCount"
    ELSE IF check = "duplicates" THEN "uniqueColumn"
    ELSE IF check = "nullValues" THEN "requiredColumns" ELSE "validations"

QueryOf(check) ==
    IF check = "rowCount" THEN "SELECT COUNT(*)"
    ELSE IF check = "duplicates" THEN "SELECT GROUP BY"
    ELSE IF check = "nullValues" THEN "SELECT IS NULL" ELSE "SELECT out of range"

\* the config makes generateQualityReport start the check
Starts(check) ==
    /\ HasKey(KeyOf(check))
    /\ check = "rowCount" => qconfig.expectedRowCount[1] # 0

\* what the check returns on the table of the report
ResultOf(check) ==
    IF check = "rowCount"
    THEN verifyRowCount(qconfig.tableName, qconfig.expectedRowCount[1],
                        ConfiguredTolerance)
    ELSE IF check = "duplicates"
    THEN checkDuplicates(qconfig.tableName, qconfig.uniqueColumn[1])
    ELSE IF check = "nullValues"
    THEN checkNullValues(qconfig.tableName, qconfig.requiredColumns[1])
    ELSE validateDataTypes(qconfig.tableName, qconfig.validations[1])

\* C13: when a check threw, generateQualityReport has returned (no error is
\* thrown on to its caller) a report with the error, passed = false and the
\* result of every check that was started before the failing one; the failing
\* check and the checks after it are not in the report and their queries were
\* not issued
ReportOnThrow ==
    report.error # "" =>
        /\ report.returned /\ report.passed = Some(FALSE)
        /\ error = "" /\ pc \in { "closePool", "done" }
        /\ \E k \in DOMAIN CheckOrder :
               /\ Starts(CheckOrder[k])
               /\ \A j \in DOMAIN CheckOrder :
                      HasCheck(CheckOrder[j]) <=> (j < k /\ Starts(CheckOrder[j]))
        /\ \A j \in DOMAIN CheckOrder :
               /\ HasCheck(CheckOrder[j]) =>
                      report.checks[CheckOrder[j]] = Some(ResultOf(CheckOrder[j]))
               /\ HasCheck(CheckOrder[j]) <=> QueryOf(CheckOrder[j]) \in Range(log)

\* the null value check threw after the row count and the duplicates checks
\* were done; the data type check was configured and did not run
ReportOnThrowWitness ==
    /\ report.error # "" /\ report.returned
    /\ HasCheck("rowCount") /\ HasCheck("duplicates")
    /\ report.checks.duplicates[1].hasDuplicates
    /\ ~HasCheck("nullValues") /\ HasKey("requiredColumns")
    /\ ~HasCheck("dataTypes") /\ HasKey("validations")

\* the steps and the queries of the audit
AuditSteps ==
    { "audit.rowCount", "audit.duplicates", "audit.nullValues", "audit.dataTypes" }

AuditQueries == { QueryOf(CheckOrder[k]) : k \in DOMAIN CheckOrder }

\* the audit of the run has started
AuditStarted ==
    pc \in AuditSteps \/ report.returned \/ Range(log) \cap AuditQueries # {}

\* the column a pipeline's table is keyed by
KeyColumn(s) ==
    IF s = "students" THEN "email"
    ELSE IF s = "titanic" THEN "passenger_id" ELSE "show_id"

\* C14: the audit of a run starts only after the load of that run has
\* committed (COMMIT is before every audit query, no transaction is open);
\* from then on, whatever the report says (passed = false or an error), no
\* error is thrown out of the run, the store stays as the load left it with a
\* row for every loaded record, and the run ends with exit status 0
AuditNeverFatal ==
    AuditStarted =>
        /\ lastLoad.run = runs /\ tx = NoTx /\ ~client
        /\ \A i \in DOMAIN log :
               log[i] \in AuditQueries => \E j \in 1..(i - 1) : log[j] = "COMMIT"
        /\ db = lastLoad.left
        /\ \A k \in DOMAIN transformedRows :
               Matching(db[TableOf(script)], KeyColumn(script),
                        transformedRows[k][KeyColumn(script)]) # {}
        /\ error = ""
        /\ pc = "done" => exitCode = 0

\* a titanic run added a passenger to a table that holds an age out of range:
\* the report did not pass, the run ended with exit status 0 and the row stays
AuditNeverFatalWitness ==
    /\ script = "titanic" /\ pc = "done" /\ exitCode = 0
    /\ report.returned /\ report.error = "" /\ report.passed = Some(FALSE)
    /\ lastLoad.run = runs
    /\ Len(lastLoad.found.titanic) = 1 /\ Len(db.titanic) = 2

\* a students run whose audit threw ended with exit status 0 and kept its row
AuditErrorWitness ==
    /\ script = "students" /\ pc = "done" /\ exitCode = 0
    /\ report.returned /\ report.error # ""
    /\ lastLoad.run = runs
    /\ Len(lastLoad.found.students) = 0 /\ Len(db.students) = 1

\* the number of times op is in the log of the run
Count(op) == Cardinality({ i \in DOMAIN log : log[i] = op })

\* the messages of the failures that end a run: of the connection, of the
\* extraction, of the transaction and of the write-back to the sheet
RunLevelErrors ==
    { "Database connection failed", "Failed to read the source", "Failed to connect",
      "BEGIN failed", "Query failed", "COMMIT failed", "ROLLBACK failed",
      "Failed to update the sheet" } \cup StatementErrors

\* the run went through every stage it had to: the extraction returned, the
\* rows were transformed unless there were none, the accepted rows were
\* committed, and every status update of a sheet run was sent
RunCompleted ==
    /\ Range(log) \cap { "read", "readCache" } # {}
    /\ (rows # <<>> \/ script # "students") => Transformed
    /\ transformedRows # <<>> => "COMMIT" \in Range(log)
    /\ (script = "students" /\ sourceType = "SHEET") =>
           Count("batchUpdate") * SheetBatchSize >= Len(sheetUpdates)

\* C15: a finished run has exit status 0 exactly when no error was thrown out
\* of it, which is exactly when it went through every stage it had to; an
\* error thrown out of a run is one of the connection, the extraction, the
\* transaction or the write-back; rejected rows and the quality report have no
\* part in the exit status
ExitStatus ==
    pc = "done" =>
        /\ exitCode \in { 0, 1 }
        /\ exitCode = 0 <=> error = ""
        /\ exitCode = 0 <=> RunCompleted
        /\ error # "" => error \in RunLevelErrors

\* a CSV run rejected both its rows and ended with exit status 0
ExitStatusWitness ==
    /\ script = "students" /\ sourceType = "CSV" /\ pc = "done" /\ exitCode = 0
    /\ Len(rows) = 2 /\ errorCount = 2 /\ transformedRows = <<>>

\* a sheet run committed its load, failed to write its statuses back and ended
\* with exit status 1
ExitStatusFeedbackWitness ==
    /\ script = "students" /\ sourceType = "SHEET" /\ pc = "done" /\ exitCode = 1
    /\ error = "Failed to update the sheet"
    /\ lastLoad.run = runs

\* the run acquired a client for its transaction
ClientAcquired == "connect" \in Range(log)

\* the errors with which a load fails once it has its client
LoadErrors ==
    { "BEGIN failed", "Query failed", "COMMIT failed", "ROLLBACK failed" }
        \cup StatementErrors

\* C16: a client is held only while the pool is open; when the run is at its
\* closePool or has ended, the client it acquired is released and no
\* transaction is open, and its transaction ended with COMMIT or else with
\* ROLLBACK, with ROLLBACK and without COMMIT when the load failed; when the
\* run has ended (its result or error is with the caller) the pool is closed
ResourcesReleased ==
    /\ client => pool
    /\ tx.open => client
    /\ pc \in { "closePool", "done" } =>
           /\ ~client /\ tx = NoTx
           /\ ClientAcquired =>
                  /\ Count("COMMIT") + Count("ROLLBACK") = 1
                  /\ error \in LoadErrors =>
                         Count("ROLLBACK") = 1 /\ Count("COMMIT") = 0
                  /\ Count("connect") = 1
    /\ pc = "done" => ~pool

\* a load failed at a statement: ROLLBACK was issued, the client released and
\* the pool closed before the run ended with exit status 1
ResourcesReleasedWitness ==
    /\ pc = "done" /\ exitCode = 1 /\ error = "Query failed"
    /\ ClientAcquired /\ "BEGIN" \in Range(log)
    /\ log[Len(log)] = "ROLLBACK"
    /\ ~client /\ ~pool

\* the stage a run is in. The write-back to the sheet belongs to the stage it
\* follows; a run whose error is being thrown out is Failed
Stage ==
    IF pc = "idle" THEN "Idle"
    ELSE IF pc = "rollback" THEN "Failed"
    ELSE IF pc \in { "closePool", "done" }
    THEN IF (pc = "closePool" /\ error = "") \/ (pc = "done" /\ exitCode = 0)
         THEN "Done" ELSE "Failed"
    ELSE IF pc \in { "initializePool", "extract" } THEN "Extracting"
    ELSE IF pc = "transform" THEN "Transforming"
    ELSE IF pc = "batchUpdateSheet"
    THEN IF ret = "closePool" THEN "Transforming" ELSE "Loading"
    ELSE IF pc \in AuditSteps THEN "Auditing"
    ELSE "Loading"

\* the moves of a run from one stage to another
StageSteps ==
    { << "Idle", "Extracting" >>, << "Extracting", "Transforming" >>,
      << "Transforming", "Loading" >>, << "Loading", "Auditing" >> }
        \cup { << s, "Done" >> :
                 s \in { "Extracting", "Transforming", "Loading", "Auditing" } }
        \cup { << s, "Failed" >> :
                 s \in { "Extracting", "Transforming", "Loading", "Auditing" } }

\* the stage an operation of the log belongs to, 0 for the write-back
StageOfOp(op) ==
    IF op \in { "SELECT NOW()", "read", "readCache" } THEN 1
    ELSE IF op = "transform" THEN 2
    ELSE IF op \in AuditQueries THEN 4
    ELSE IF op = "batchUpdate" THEN 0
    ELSE 3

\* the operations of the run so far are in the order of their stages; the
\* transformation worked on all the rows the extraction returned and was done
\* once; the operations of the load come after it
LogInOrder ==
    /\ \A i, j \in DOMAIN log :
           (i < j /\ StageOfOp(log[i]) # 0 /\ StageOfOp(log[j]) # 0)
               => StageOfOp(log[i]) <= StageOfOp(log[j])
    /\ Count("transform") <= 1 /\ Count("read") + Count("readCache") <= 1
    /\ Transformed =>
           /\ Count("read") + Count("readCache") = 1
           /\ Len(transformedRows) + errorCount
                  = Cardinality({ i \in DOMAIN rows : Eligible(rows[i]) })
    /\ pc \in { "transform", "connect", "begin", "load", "commit" } \cup AuditSteps
           => error = ""

\* C17: in every run the operations occur in the order extraction,
\* transformation, load, audit: no validation before the extraction returned
\* its rows, no statement of the load before every row was validated, no audit
\* query before the load; and a step of a run stays in its stage or moves to
\* the next stage, to Done or to Failed
StagesInOrder ==
    /\ []LogInOrder
    /\ [][runs' = runs => (Stage' = Stage \/ << Stage, Stage' >> \in StageSteps)]_vars

\* a run went through the four stages and is Done
StagesInOrderWitness ==
    /\ pc = "done" /\ Stage = "Done"
    /\ { StageOfOp(log[i]) : i \in DOMAIN log } = { 0, 1, 2, 3, 4 }
    /\ Len(transformedRows) = 2 /\ errorCount = 0

\* a sheet run that loads at least one row
SheetLoadRun ==
    script = "students" /\ sourceType = "SHEET" /\ transformedRows # <<>>

\* C18: in a sheet run that loads at least one row, no status is written to
\* the sheet before the quality audit has returned its report
FeedbackAfterAudit ==
    (SheetLoadRun /\ Count("batchUpdate") > 0) => report.returned

\* the order of the code: in a sheet run that loads at least one row the
\* statuses are written after COMMIT and every one of them is written before
\* the first step of the audit
FeedbackBeforeAudit ==
    SheetLoadRun =>
        /\ Count("batchUpdate") > 0 => "COMMIT" \in Range(log)
        /\ AuditStarted =>
               /\ Count("batchUpdate") * SheetBatchSize >= Len(sheetUpdates)
               /\ \A k \in DOMAIN transformedRows :
                      Cell(source[transformedRows[k].rowIndex - 1], 9) = Synced

\* the run is leaving or has left, and its extraction did not return
ExtractionFailed ==
    /\ pc \in { "closePool", "done" }
    /\ "SELECT NOW()" \in Range(log)
    /\ Range(log) \cap { "read", "readCache" } = {}

\* the run had rows to load and its transaction did not commit
LoadFailed ==
    \/ "ROLLBACK" \in Range(log)
    \/ /\ pc \in { "rollback", "closePool", "done" }
       /\ Transformed /\ transformedRows # <<>>
       /\ "COMMIT" \notin Range(log)

\* C19: when the extraction of a run failed, no row was validated, no
\* statement, audit query or write-back was issued and store and source are
\* as the run found them; when its load failed, no audit query was issued, no
\* report made and no status written to the sheet, and the rows of the store
\* are as before; in both cases the error is thrown out of the run, which ends
\* with exit status 1
RunFailureAborts ==
    /\ ExtractionFailed =>
           /\ Range(log) = { "SELECT NOW()" }
           /\ rows = <<>> /\ transformedRows = <<>>
           /\ processedCount = 0 /\ errorCount = 0
           /\ report = NoReport
           /\ db = before.db /\ source = before.source
           /\ error = "Failed to read the source"
           /\ pc = "done" => exitCode = 1
    /\ LoadFailed =>
           /\ Range(log) \cap AuditQueries = {}
           /\ Count("batchUpdate") = 0
           /\ report = NoReport
           /\ source = before.source
           /\ pc # "rollback" => Rows(db) = Rows(before.db)
           /\ error \in LoadErrors \cup { "Failed to connect" }
           /\ pc = "done" => exitCode = 1

\* a sheet run with an accepted and a rejected row failed in its load: no
\* status, not even the error status it had gathered, is in the sheet, no
\* audit ran and the exit status is 1
RunFailureAbortsWitness ==
    /\ script = "students" /\ sourceType = "SHEET" /\ pc = "done" /\ exitCode = 1
    /\ LoadFailed /\ "BEGIN" \in Range(log)
    /\ Len(transformedRows) = 1 /\ errorCount = 1 /\ Len(sheetUpdates) = 1
    /\ source = before.source

\* a run whose extraction failed ended with exit status 1
ExtractionFailedWitness ==
    ExtractionFailed /\ pc = "done" /\ exitCode = 1 /\ before.source # <<>>

\* the callback of executeTransaction threw: a statement of the loader failed
CallbackThrew ==
    "statement failed" \in Range(log) \/ error \in StatementErrors

\* executeTransaction is over
TransactionOver == ClientAcquired /\ pc \in { "closePool", "done" }

\* what executeTransaction does whatever fails: BEGIN is the first query on the
\* client, every statement of the callback comes after it, the transaction
\* ends with one COMMIT or else one ROLLBACK, a callback that threw is followed
\* by ROLLBACK and never by COMMIT, a committed load returns the count of the
\* callback, and the client is released
TransactionReleases ==
    /\ \A i \in DOMAIN log :
           /\ log[i] = "BEGIN" => (i > 1 /\ log[i - 1] = "connect")
           /\ log[i] \in { "CALL register_student", "INSERT", "statement failed",
                           "COMMIT" }
                  => \E j \in 1..(i - 1) : log[j] = "BEGIN"
    /\ Count("BEGIN") <= 1
    /\ TransactionOver =>
           /\ ~client
           /\ Count("COMMIT") + Count("ROLLBACK") = 1
           /\ CallbackThrew => (Count("ROLLBACK") = 1 /\ error # "")
           /\ Count("COMMIT") = 1 =>
                  (loadedCount = successCount /\ lastLoad.run = runs)

\* C20: executeTransaction does the above, and when the callback threw, the
\* error thrown on to the caller is the error of the callback
CallbackErrorRethrown ==
    /\ TransactionReleases
    /\ (TransactionOver /\ CallbackThrew) => error = "Query failed"

\* a statement failed and then ROLLBACK failed: the client is released and the
\* caller gets the error of ROLLBACK
RollbackFailedWitness ==
    /\ TransactionOver /\ CallbackThrew
    /\ error = "ROLLBACK failed" /\ ~client
    /\ pc = "done" /\ exitCode = 1

\* ------------------------------------------------------------------------
\* initializePool and queryWithRetry on their own, one step for each await
\* ------------------------------------------------------------------------
MaxAttempts == 4

\* the values of DB_RETRY_DELAY
RetryDelays == { 250, DefaultRetryDelay }

\* err.code of a failing query: two connection errors and unique_violation
ConnectionErrors == { "ECONNRESET", "ETIMEDOUT" }

ErrorCodes == ConnectionErrors \cup { "23505" }

\* the variables neither function touches
IdlePipeline ==
    UNCHANGED << cfgVars, source, cache, db, tx, client, ret, runs, runVars,
                 auditVars, exitCode, faults, before, lastLoad, maxRetries,
                 retryDelay, callVars, sent, procs >>

\* initializePool up to its loop: the pool is returned when there is one, else
\* it is created and retries starts at 0
EnterInitializePool ==
    /\ pc = "initializePool.enter"
    /\ IF pool
       THEN pc' = "returned" /\ UNCHANGED << pool, retries >>
       ELSE /\ pool' = TRUE
            /\ retries' = 0
            /\ pc' = IF 0 < maxRetries THEN "initializePool.test" ELSE "returned"
    /\ IdlePipeline
    /\ UNCHANGED << now, error, log, attempt, lastError, issued, waits >>

\* the loop with a catch that never throws
TestConnectionNoThrow ==
    /\ pc = "initializePool.test"
    /\ issued' = issued + 1
    /\ \/ /\ pc' = "returned"
          /\ Logged("SELECT NOW()")
          /\ UNCHANGED << retries, error >>
       \/ /\ retries' = retries + 1
          /\ Logged("failed")
          /\ pc' = "initializePool.sleep" /\ UNCHANGED error
    /\ IdlePipeline
    /\ UNCHANGED << now, pool, attempt, lastError, waits >>

\* the try of the loop: pool.connect() and SELECT NOW(); the catch counts the
\* failure and throws when retries has reached maxRetries
TestConnection ==
    /\ pc = "initializePool.test"
    /\ issued' = issued + 1
    /\ \/ /\ pc' = "returned"
          /\ Logged("SELECT NOW()")
          /\ UNCHANGED << retries, error >>
       \/ /\ retries' = retries + 1
          /\ Logged("failed")
          /\ IF retries' >= maxRetries
             THEN error' = "Database connection failed" /\ pc' = "thrown"
             ELSE pc' = "initializePool.sleep" /\ UNCHANGED error
    /\ IdlePipeline
    /\ UNCHANGED << now, pool, attempt, lastError, waits >>

\* await sleep(config.database.retryDelay * retries), then the loop condition
SleepInitializePool ==
    /\ pc = "initializePool.sleep"
    /\ sleep(retryDelay * retries)
    /\ pc' = IF retries < maxRetries THEN "initializePool.test" ELSE "returned"
    /\ IdlePipeline
    /\ UNCHANGED << pool, error, log, retries, attempt, lastError, issued >>

\* queryWithRetry up to its loop: attempt starts at 1
EnterQueryWithRetry ==
    /\ pc = "queryWithRetry.enter"
    /\ attempt' = 1
    /\ IF 1 <= maxRetries
       THEN pc' = "queryWithRetry.query" /\ UNCHANGED error
       ELSE pc' = "thrown" /\ error' = lastError
    /\ IdlePipeline
    /\ UNCHANGED << now, pool, log, retries, lastError, issued, waits >>

\* the loop with a catch that retries whatever the error is
QueryRetryingAll ==
    /\ pc = "queryWithRetry.query"
    /\ issued' = issued + 1
    /\ \/ /\ pc' = "returned"
          /\ Logged("query")
          /\ UNCHANGED << lastError, error >>
       \/ \E code \in ErrorCodes :
              /\ lastError' = code
              /\ Logged(code)
              /\ pc' = "queryWithRetry.sleep" /\ UNCHANGED error
    /\ IdlePipeline
    /\ UNCHANGED << now, pool, retries, attempt, waits >>

\* the try of the loop: pool.query(text, params); the catch keeps the error and
\* throws it unless its code is ECONNRESET or ETIMEDOUT
Query ==
    /\ pc = "queryWithRetry.query"
    /\ issued' = issued + 1
    /\ \/ /\ pc' = "returned"
          /\ Logged("query")
          /\ UNCHANGED << lastError, error >>
       \/ \E code \in ErrorCodes :
              /\ lastError' = code
              /\ Logged(code)
              /\ IF code \in ConnectionErrors
                 THEN pc' = "queryWithRetry.sleep" /\ UNCHANGED error
                 ELSE pc' = "thrown" /\ error' = code
    /\ IdlePipeline
    /\ UNCHANGED << now, pool, retries, attempt, waits >>

\* await sleep(1000 * attempt), attempt++ and the loop condition; after the
\* loop, throw lastError
SleepQueryWithRetry ==
    /\ pc = "queryWithRetry.sleep"
    /\ sleep(1000 * attempt)
    /\ attempt' = attempt + 1
    /\ IF attempt' <= maxRetries
       THEN pc' = "queryWithRetry.query" /\ UNCHANGED error
       ELSE pc' = "thrown" /\ error' = lastError
    /\ IdlePipeline
    /\ UNCHANGED << pool, log, retries, lastError, issued >>

\* a process that calls initializePool, or queryWithRetry on its pool
\* (maxRetries is config.database.maxRetries for the one and the parameter
\* retries for the other)
InitRetry ==
    /\ script = "students" /\ sourceType = "CSV" /\ enableCaching = FALSE
    /\ source = <<>> /\ cache = NoCache /\ now = 0
    /\ db = EmptyDb /\ tx = NoTx /\ client = FALSE
    /\ \/ pc = "initializePool.enter" /\ pool = FALSE
       \/ pc = "queryWithRetry.enter" /\ pool = TRUE
    /\ ret = "" /\ runs = 0
    /\ rows = <<>> /\ transformedRows = <<>> /\ sheetUpdates = <<>>
    /\ processedCount = 0 /\ errorCount = 0 /\ idx = 0
    /\ successCount = 0 /\ loadedCount = 0
    /\ report = NoReport /\ qconfig = <<>>
    /\ error = "" /\ exitCode = 0 /\ faults = 0
    /\ log = <<>> /\ before = Found(db, source) /\ lastLoad = NoLoad
    /\ maxRetries \in 1..MaxAttempts
    /\ retryDelay \in RetryDelays
    /\ retries = 0 /\ attempt = 0 /\ lastError = "" /\ issued = 0 /\ waits = <<>>
    /\ arg = <<>> /\ outcome = <<>> /\ sent = <<>> /\ procs = <<>>

NextRetry ==
    \/ EnterInitializePool
    \/ TestConnection
    \/ SleepInitializePool
    \/ EnterQueryWithRetry
    \/ Query
    \/ SleepQueryWithRetry

SpecRetry == InitRetry /\ [][NextRetry]_vars

\* the call under way is one of initializePool
PoolCall == attempt = 0 /\ pc # "queryWithRetry.enter"

ThirdTestWitness ==
    /\ PoolCall /\ pc = "returned"
    /\ issued = 3 /\ retries = 2 /\ maxRetries = 4


\* C22: the waits of a call grow by a constant factor greater than 1: every
\* wait is longer than the one before it, and the ratio of two waits in a row
\* is the same all along (waits[k + 1] / waits[k] = waits[k] / waits[k - 1])
ExponentialBackoff ==
    /\ \A k \in 2..Len(waits) : waits[k] > waits[k - 1]
    /\ \A k \in 2..(Len(waits) - 1) :
           waits[k + 1] * waits[k - 1] = waits[k] * waits[k]

\* what the code does: the wait after the k-th failure is k times the base,
\* retryDelay in initializePool and 1000 in queryWithRetry
LinearBackoff ==
    \A k \in 1..Len(waits) :
        waits[k] = k * (IF PoolCall THEN retryDelay ELSE 1000)

\* three waits in one call of each function
LinearBackoffWitness ==
    /\ PoolCall /\ Len(waits) = 3 /\ waits[3] = 3 * DefaultRetryDelay

LinearBackoffQueryWitness ==
    /\ ~PoolCall /\ Len(waits) = 3 /\ waits[3] = 3000


\* the call under way is one of queryWithRetry
QueryCall == ~PoolCall

\* C23: queryWithRetry issues the query again only after ECONNRESET or
\* ETIMEDOUT, at most retries times in all, and then throws the last error;
\* any other error is thrown by the attempt that met it, with no wait and no
\* further attempt
RetryOnlyTransient ==
    QueryCall =>
        /\ issued <= maxRetries /\ Len(log) = issued
        /\ \A k \in 1..(Len(log) - 1) : log[k] \in ConnectionErrors
        /\ (log # <<>> /\ log[Len(log)] \notin ConnectionErrors) =>
               /\ pc \in { "returned", "thrown" }
               /\ Len(waits) = issued - 1
        /\ pc = "returned" => log # <<>> /\ log[Len(log)] = "query" /\ error = ""
        /\ pc = "thrown" =>
               /\ log # <<>> /\ error = log[Len(log)] /\ error = lastError
               /\ error \in ErrorCodes
               /\ error \in ConnectionErrors => issued = maxRetries
        /\ pc = "queryWithRetry.query" => issued < maxRetries

\* the third attempt of three met a connection error, which is thrown
RetryOnlyTransientWitness ==
    /\ QueryCall /\ pc = "thrown" /\ maxRetries = 3 /\ issued = 3
    /\ error = "ETIMEDOUT" /\ log[1] = "ECONNRESET"

\* a constraint violation on the second attempt is thrown at once
SqlErrorWitness ==
    /\ QueryCall /\ pc = "thrown" /\ maxRetries = 4 /\ issued = 2
    /\ error = "23505" /\ Len(waits) = 1


\* ------------------------------------------------------------------------
\* validateStudentRow on its own: one call on one row
\* ------------------------------------------------------------------------
\* the cells of a row: row[1] to row[3] and row[6] to row[8]; no department
\* and no course
StudentCells(name, email, phone, credits, grade, year) ==
    << << "t" >>, name, email, phone, <<>>, <<>>, credits, grade, year >>

\* names: none, empty, two parts, one part, a first part and a last part of
\* special characters only
Names ==
    { Undef, <<>>, << "A", "l", " ", "B", "o" >>, << "C", "y" >>,
      << "@", " ", "B", "o" >>, << "A", "l", " ", "@" >> }

\* an email of EmailMaxLength + 1 characters
LongEmail == [ k \in 1..(EmailMaxLength - 4) |-> "a" ] \o << "@", "b", ".", "c", "o" >>

\* emails: none, valid, no domain, valid in another case with spaces around
\* it, too long
Emails ==
    { Undef, EmailA, << "a", "@", "b" >>,
      << " ", "A", "@", "B", ".", "c", "o", " " >>, LongEmail }

\* phones: none, digits, no phone character at all, a JSON number
Phones == { <<>>, << "5" >>, << "x" >>, JsNumber }

\* credits (1 to 10): none, in range, no number, out of range
CreditCells == { <<>>, << "3" >>, << "x" >>, << "1", "1" >> }

\* grades: none, allowed in lower case, not allowed, special characters only,
\* allowed with a space before it
GradeCells == { <<>>, << "a", "-" >>, << "E" >>, << "<" >>, << " ", "b" >> }

\* years (1 to 5): none, in range, out of range
YearCells == { <<>>, << "2" >>, << "9" >> }

StudentInputs ==
    { StudentCells(n, e, p, c, g, y) :
        n \in Names, e \in Emails, p \in Phones, c \in CreditCells,
        g \in GradeCells, y \in YearCells }

\* validateStudentRow(row): it returns its result or ends in a TypeError
ValidateStudentRow ==
    /\ pc = "validateStudentRow.enter"
    /\ \E r \in { validateStudentRow(arg) } :
           /\ outcome' = r
           /\ pc' = IF r.threw THEN "thrown" ELSE "returned"
    /\ UNCHANGED << cfgVars, envVars, storeVars, ret, runs, runVars, auditVars,
                    error, exitCode, faults, histVars, retryVars, arg, sent,
                    procs >>

\* the fields of a titanic row that validateTitanicRow reads as numbers
TitanicCells(id, survived, pclass, age, sibsp, parch, fare) ==
    [ passengerid |-> id, survived |-> survived, pclass |-> pclass,
      name |-> << "A", "l" >>, sex |-> << "m" >>, age |-> age, sibsp |-> sibsp,
      parch |-> parch, ticket |-> << "T" >>, fare |-> fare,
      cabin |-> <<>>, embarked |-> << "S" >> ]

\* passenger ids that parseInt reads as an integer (7 and 1), and ids it does
\* not: none, empty, no digit
UsableIds == { << "7" >>, << "1", "x" >> }

UnusableIds == { Undef, <<>>, << "x" >> }

\* values of the other fields that the validators keep, and values that are
\* missing, malformed or out of range
KeptCells ==
    [ survived |-> { << "1" >> }, pclass |-> { << "2" >> },
      age |-> { << "2", "2" >> }, sibsp |-> { << "1" >> },
      parch |-> { << "2" >> }, fare |-> { << "7", ".", "5" >> } ]

DegradedCells ==
    [ survived |-> { << "5" >>, << "x" >> }, pclass |-> { << "0" >>, Undef },
      age |-> { << "x" >>, << "2", "0", "0" >>, <<>> }, sibsp |-> { << "1", "1" >> },
      parch |-> { Undef, << "-", "1" >> }, fare |-> { << "-", "1" >>, << "x" >> } ]

FieldCells(field) == KeptCells[field] \cup DegradedCells[field]

TitanicInputs ==
    { TitanicCells(id, s, c, a, b, p, f) :
        id \in UsableIds \cup UnusableIds, s \in FieldCells("survived"),
        c \in FieldCells("pclass"), a \in FieldCells("age"),
        b \in FieldCells("sibsp"), p \in FieldCells("parch"),
        f \in FieldCells("fare") }

\* show ids that are not empty once sanitized, and ids that are: none, empty,
\* hazardous characters only, a number
UsableShowIds == { << "s", "1" >>, << " ", "s", "1" >> }

UnusableShowIds == { Undef, <<>>, << "<", ">" >>, JsNumber }

KeptYears == { << "2", "0", "2", "0" >> }

DegradedYears == { Undef, << "x" >>, << "1", "8", "0", "0" >>, << "2", "0", "3", "1" >> }

NetflixInputs ==
    { [ NetflixRow(id, << "A" >>) EXCEPT !.release_year = y ] :
        id \in UsableShowIds \cup UnusableShowIds,
        y \in KeptYears \cup DegradedYears }

\* transformTitanicData([row]) and transformNetflixData([row])
TransformTitanicData ==
    /\ pc = "transformTitanicData.enter"
    /\ outcome' = transformTitanicData(<< arg >>)
    /\ pc' = "transformed"
    /\ UNCHANGED << cfgVars, envVars, storeVars, ret, runs, runVars, auditVars,
                    error, exitCode, faults, histVars, retryVars, arg, sent,
                    procs >>

TransformNetflixData ==
    /\ pc = "transformNetflixData.enter"
    /\ outcome' = transformNetflixData(<< arg >>)
    /\ pc' = "transformed"
    /\ UNCHANGED << cfgVars, envVars, storeVars, ret, runs, runVars, auditVars,
                    error, exitCode, faults, histVars, retryVars, arg, sent,
                    procs >>

\* the bounds of the strings given to sanitizeString
MaxLen == 3

SanitizeChars == { "a", " ", "<", "'" }

\* the strings of at most MaxLen characters, with every maxLength up to MaxLen
SanitizeInputs ==
    [ input : SeqsUpTo(SanitizeChars, MaxLen), maxLength : 0..MaxLen ]

\* a call of sanitizeString(input, maxLength)
SanitizeString ==
    /\ pc = "sanitizeString.enter"
    /\ outcome' = sanitizeString(arg.input, arg.maxLength)
    /\ pc' = "sanitized"
    /\ UNCHANGED << cfgVars, envVars, storeVars, ret, runs, runVars, auditVars,
                    error, exitCode, faults, histVars, retryVars, arg, sent,
                    procs >>

InitValidate ==
    /\ sourceType = "CSV" /\ enableCaching = FALSE
    /\ \/ /\ script = "students" /\ pc = "validateStudentRow.enter"
          /\ arg \in StudentInputs
       \/ /\ script = "students" /\ pc = "sanitizeString.enter"
          /\ arg \in SanitizeInputs
       \/ /\ script = "titanic" /\ pc = "transformTitanicData.enter"
          /\ arg \in TitanicInputs
       \/ /\ script = "netflix" /\ pc = "transformNetflixData.enter"
          /\ arg \in NetflixInputs
    /\ source = <<>> /\ cache = NoCache /\ now = 0
    /\ db = EmptyDb /\ tx = NoTx /\ pool = FALSE /\ client = FALSE
    /\ ret = "" /\ runs = 0
    /\ rows = <<>> /\ transformedRows = <<>> /\ sheetUpdates = <<>>
    /\ processedCount = 0 /\ errorCount = 0 /\ idx = 0
    /\ successCount = 0 /\ loadedCount = 0
    /\ report = NoReport /\ qconfig = <<>>
    /\ error = "" /\ exitCode = 0 /\ faults = 0
    /\ log = <<>> /\ before = Found(db, source) /\ lastLoad = NoLoad
    /\ maxRetries = DefaultMaxRetries /\ retryDelay = DefaultRetryDelay
    /\ retries = 0 /\ attempt = 0 /\ lastError = "" /\ issued = 0 /\ waits = <<>>
    /\ outcome = <<>> /\ sent = <<>> /\ procs = <<>>

NextValidate ==
    \/ ValidateStudentRow
    \/ TransformTitanicData
    \/ TransformNetflixData
    \/ SanitizeString

SpecValidate == InitValidate /\ [][NextValidate]_vars


\* the fields validateStudentRow reports, in the order of its checks
ReportedFields == << "Name", "Email", "Credits", "Grade", "Year" >>

\* the rule of a field fails on a row: the field's own validator, asked alone
Fails(row, field) ==
    CASE field = "Name" -> ~parseFullName(Cell(row, 1)).valid
      [] field = "Email" -> ~validateEmail(Cell(row, 2)).valid
      [] field = "Credits" ->
             Truthy(Cell(row, 6)) /\ ~validateInteger(Cell(row, 6), { 1 }, { 10 }).valid
      [] field = "Grade" ->
             Truthy(gradeOf(Cell(row, 7))) /\ gradeOf(Cell(row, 7)) \notin AllowedGrades
      [] field = "Year" ->
             Truthy(Cell(row, 8)) /\ ~validateInteger(Cell(row, 8), { 1 }, { 5 }).valid

FailingFields(row) ==
    LET Test(field) == Fails(row, field) IN SelectSeq(ReportedFields, Test)

\* the field names of an errors list, one for each entry
ErrorFields(errors) == [ k \in 1..(Len(errors) \div 2) |-> errors[2 * k - 1] ]

NoErrorWitness ==
    /\ pc = "returned" /\ outcome.valid /\ Cell(arg, 6) = << "3" >>


\* C25 (second half): a row whose name, email and grade pass is accepted,
\* whatever its phone, credits and year are: a malformed optional value
\* degrades to the default or to null and never rejects the row
OptionalNeverRejects ==
    (pc = "returned" /\ ~Fails(arg, "Name") /\ ~Fails(arg, "Email")
        /\ ~Fails(arg, "Grade")) => outcome.valid

\* C25 (first half): a missing or malformed name or email rejects the row with
\* an error that names the field
RequiredFieldsReject ==
    pc = "returned" =>
        \A field \in { "Name", "Email" } :
            Fails(arg, field) =>
                /\ ~outcome.valid
                /\ field \in Range(ErrorFields(outcome.errors))

\* what the code does with the optional fields: a malformed phone degrades to
\* an empty phone, while credits and year reject the row when present and
\* malformed, and still degrade to null and to 1 in the data returned
OptionalFieldsDegrade ==
    pc = "returned" =>
        /\ outcome.valid <=> \A field \in Range(ReportedFields) : ~Fails(arg, field)
        /\ Fails(arg, "Credits") => outcome.data.credits = Null
        /\ Fails(arg, "Year") => outcome.data.year = 1
        /\ Cell(arg, 3) = << "x" >> => outcome.data.phone = <<>>

\* a row rejected for its credits alone, and one rejected for its name
CreditsRejectWitness ==
    /\ pc = "returned" /\ ErrorFields(outcome.errors) = << "Credits" >>
    /\ Cell(arg, 6) = << "x" >>

RequiredFieldsRejectWitness ==
    /\ pc = "returned" /\ ErrorFields(outcome.errors) = << "Name" >>
    /\ Cell(arg, 1) = << "@", " ", "B", "o" >>


\* the grade cell as validateStudentRow compares it: sanitized and uppercased
UpperGrade(row) == toUpperCase(sanitizeString(Cell(row, 7), GradeMaxLength))

\* C26: a present grade is uppercased and rejects the row exactly when the
\* uppercased value is not one of A, A-, B+, B, B-, C+, C, C-, D, F; an absent
\* grade never rejects the row and is recorded as null
GradeRule ==
    pc = "returned" =>
        IF Truthy(Cell(arg, 7))
        THEN /\ "Grade" \in Range(ErrorFields(outcome.errors))
                    <=> UpperGrade(arg) \notin AllowedGrades
             /\ outcome.data.grade = UpperGrade(arg)
        ELSE /\ "Grade" \notin Range(ErrorFields(outcome.errors))
             /\ outcome.data.grade = Undef

\* what the code does: a grade that is empty once sanitized passes as well,
\* and is recorded as the empty string
GradeRuleNonEmpty ==
    pc = "returned" =>
        IF Truthy(Cell(arg, 7))
        THEN /\ "Grade" \in Range(ErrorFields(outcome.errors))
                    <=> (UpperGrade(arg) # <<>> /\ UpperGrade(arg) \notin AllowedGrades)
             /\ outcome.data.grade = UpperGrade(arg)
        ELSE /\ "Grade" \notin Range(ErrorFields(outcome.errors))
             /\ outcome.data.grade = Undef

\* the grade "<" is accepted and recorded as ""; the grade "E" is rejected
EmptyGradeWitness ==
    /\ pc = "returned" /\ outcome.valid
    /\ Cell(arg, 7) = << "<" >> /\ outcome.data.grade = <<>>

GradeRejectedWitness ==
    /\ pc = "returned" /\ ErrorFields(outcome.errors) = << "Grade" >>
    /\ Cell(arg, 7) = << "E" >>

\* C27: an accepted student record has a first name and a last name that are
\* not empty: a name part that is missing or empty once sanitized ends in a
\* rejection (first name) or in 'Unknown' (last name)
NamesNotEmpty ==
    (pc = "returned" /\ outcome.valid) =>
        /\ outcome.data.firstName # <<>> /\ outcome.data.firstName # Undef
        /\ outcome.data.lastName # <<>> /\ outcome.data.lastName # Undef

\* what the code does: the first name of an accepted record is never empty; the
\* last name is 'Unknown' when the name has one part, and otherwise the
\* sanitized rest of the name, which can be empty
FirstNameNotEmpty ==
    (pc = "returned" /\ outcome.valid) =>
        /\ outcome.data.firstName # <<>> /\ outcome.data.firstName # Undef
        /\ outcome.data.firstName # Unknown
        /\ outcome.data.lastName # Undef
        /\ Cell(arg, 1) = << "C", "y" >> => outcome.data.lastName = Unknown

\* the name "Al @" is accepted with the last name ""
EmptyLastNameWitness ==
    /\ pc = "returned" /\ outcome.valid
    /\ Cell(arg, 1) = << "A", "l", " ", "@" >>
    /\ outcome.data.firstName = << "A", "l" >> /\ outcome.data.lastName = <<>>


\* the rows of a sequence of batches, in order
RECURSIVE Flat(_)
Flat(batches) == IF batches = <<>> THEN <<>> ELSE Head(batches) \o Flat(Tail(batches))

\* a run of loadTitanic or loadNetflix
DatasetRun == script \in { "titanic", "netflix" } /\ runs > 0

\* the statements of the loaders in the log
LoaderStatements == { "INSERT", "statement failed" }

\* C28: loadTitanicData and loadNetflixData send the accepted records in
\* consecutive batches: the batches sent so far are, put end to end, the first
\* records of validRows in their order; each batch holds at least one and at
\* most batchSize rows and every batch before the last holds batchSize; at
\* COMMIT they are all of validRows, so each record went in exactly one
\* statement; the statements come one after another in one transaction,
\* between its BEGIN and its COMMIT or ROLLBACK; and the number of statements
\* never exceeds Len(validRows) / batchSize rounded up, so the loop ends
ConsecutiveBatches ==
    DatasetRun =>
        /\ Flat(sent) = SubSeq(transformedRows, 1, Len(Flat(sent)))
        /\ \A k \in DOMAIN sent :
               /\ 1 <= Len(sent[k]) /\ Len(sent[k]) <= EtlBatchSize
               /\ k < Len(sent) => Len(sent[k]) = EtlBatchSize
        /\ Len(sent) = Count("INSERT") + Count("statement failed")
        /\ Len(sent) * EtlBatchSize < Len(transformedRows) + EtlBatchSize
        /\ "COMMIT" \in Range(log) =>
               /\ Flat(sent) = transformedRows
               /\ Count("statement failed") = 0
        /\ Count("BEGIN") <= 1
        /\ \A i \in DOMAIN log :
               log[i] \in LoaderStatements =>
                   /\ \E j \in 1..(i - 1) : log[j] = "BEGIN"
                   /\ \A j \in 1..(i - 1) : log[j] \notin { "COMMIT", "ROLLBACK" }

\* three records went in a batch of two and a batch of one, and were committed
ConsecutiveBatchesWitness ==
    /\ DatasetRun /\ "COMMIT" \in Range(log)
    /\ Len(transformedRows) = 3 /\ Len(sent) = 2
    /\ Len(sent[1]) = EtlBatchSize /\ Len(sent[2]) = 1


\* a run of runETL on a sheet
SheetRun == script = "students" /\ sourceType = "SHEET" /\ runs > 0

SheetFailed == error = "Failed to update the sheet"

\* every update was sent
AllSent == sent # <<>> /\ Flat(sent) = sheetUpdates

\* the requests made so far carry the first updates in their order, in batches
\* of batchSize (the last one may be shorter); there is one wait of
\* rateLimitDelay after each request but the last of the call; the sheet holds
\* every batch sent
SheetBatches ==
    SheetRun =>
        /\ Flat(sent) = SubSeq(sheetUpdates, 1, Len(Flat(sent)))
        /\ \A k \in DOMAIN sent :
               /\ 1 <= Len(sent[k]) /\ Len(sent[k]) <= SheetBatchSize
               /\ k < Len(sent) => Len(sent[k]) = SheetBatchSize
        /\ Len(sent) = Count("batchUpdate")
        /\ Len(waits) = IF AllSent THEN Len(sent) - 1 ELSE Len(sent)
        /\ \A k \in DOMAIN waits : waits[k] = RateLimitDelay
        /\ source = applyUpdates(before.source, Flat(sent))
        /\ SheetFailed => (pc \in { "closePool", "done" } /\ ~AllSent)
        /\ (pc = "done" /\ error = "" /\ sheetUpdates # <<>>) => AllSent

\* C29: batchUpdateSheet sends the updates in consecutive batches of at most
\* batchSize, one request at a time, with a wait of rateLimitDelay between two
\* requests and none after the last; after a request that failed the run sends
\* no further batch and the batches already sent stay in the sheet
RateLimitedBatches ==
    /\ []SheetBatches
    /\ [][(SheetRun /\ SheetFailed /\ runs' = runs)
              => (sent' = sent /\ source' = source /\ waits' = waits)]_vars

\* two updates went in two requests with one wait between them
RateLimitedBatchesWitness ==
    /\ SheetRun /\ AllSent /\ error = ""
    /\ Len(sent) = 2 /\ waits = << RateLimitDelay >>

\* the second of two requests failed: the first update stays in the sheet
SheetFailedWitness ==
    /\ SheetRun /\ SheetFailed /\ pc = "done"
    /\ Len(sheetUpdates) = 2 /\ Len(sent) = 1 /\ waits = << RateLimitDelay >>
    /\ source # before.source


\* the sheet rows (by their row number) that the run has written 'Synced' to
SyncedByRun ==
    { i + 1 : i \in { j \in DOMAIN source :
                        /\ Cell(source[j], 9) = Synced
                        /\ Cell(before.source[j], 9) # Synced } }
        \cup { u.range : u \in { v \in Range(Flat(sent)) : v.values = Synced } }

\* the record of a sheet row is in the load this run committed, and its
\* student is in the store
LoadedByRun(rowIndex) ==
    /\ lastLoad.run = runs
    /\ \E k \in DOMAIN lastLoad.records :
           /\ lastLoad.records[k].rowIndex = rowIndex
           /\ Matching(db.students, "email", lastLoad.records[k].email) # {}

\* C30: 'Synced' is written for a row only after the transaction that loaded
\* its record has committed: never for a row whose load was rolled back or
\* that was not loaded
SyncedAfterCommit ==
    SheetRun =>
        /\ \A rowIndex \in SyncedByRun :
               /\ LoadedByRun(rowIndex)
               /\ "COMMIT" \in Range(log) /\ "ROLLBACK" \notin Range(log)
               /\ tx = NoTx
        /\ SyncedByRun # {} =>
               \A i \in DOMAIN log :
                   log[i] = "batchUpdate" => \E j \in 1..(i - 1) : log[j] = "COMMIT"
        /\ "ROLLBACK" \in Range(log) => source = before.source

\* a row was marked 'Synced' and its student is in the store
SyncedAfterCommitWitness ==
    /\ SheetRun /\ pc = "done" /\ SyncedByRun # {}
    /\ Len(db.students) > Len(before.db.students)

\* a load was rolled back and no status was written
RolledBackWitness ==
    /\ SheetRun /\ pc = "done" /\ "ROLLBACK" \in Range(log)
    /\ transformedRows # <<>> /\ SyncedByRun = {}


\* the positions of the pending rows of the run that validation rejected
RejectedIndexes ==
    { i \in DOMAIN rows :
        Cell(rows[i], 9) = PendingSync /\ ~validateStudentRow(rows[i]).valid }

\* the status of sheet row i is an error status
ErrorStatus(i) ==
    /\ i \in DOMAIN source
    /\ Cell(source[i], 9) # <<>> /\ Cell(source[i], 9)[1] = "Error: "

\* C31: at the end of a sheet run in which no sheet write failed, every pending
\* row that validation rejected has an 'Error: ...' status in its own row,
\* whether other rows were accepted or not and whether the load succeeded or not
ErrorsWrittenBack ==
    (SheetRun /\ pc = "done" /\ Transformed /\ ~SheetFailed) =>
        \A i \in RejectedIndexes : ErrorStatus(i)

\* what the code does: the error statuses are in the sheet at the end of every
\* run that ended without error; a run that failed after the transformation
\* (connect, BEGIN, a statement, COMMIT or a sheet write) may have written none
ErrorsWrittenOnSuccess ==
    (SheetRun /\ pc = "done" /\ Transformed /\ error = "") =>
        \A i \in RejectedIndexes : ErrorStatus(i)

\* a rejected row got its error status next to an accepted row that was loaded
ErrorsWrittenWitness ==
    /\ SheetRun /\ pc = "done" /\ error = ""
    /\ RejectedIndexes # {} /\ transformedRows # <<>>
    /\ \A i \in RejectedIndexes : ErrorStatus(i)

\* the load was rolled back and the rejected row kept its Pending Sync status
ErrorsLostWitness ==
    /\ SheetRun /\ pc = "done" /\ "ROLLBACK" \in Range(log)
    /\ \E i \in RejectedIndexes : Cell(source[i], 9) = PendingSync


\* the update is the one its row calls for: 'Synced' for an accepted pending
\* row, 'Error: ...' for a rejected one, at sheet row i + 2 for position i
OwnStatus(u) ==
    /\ u.range - 1 \in DOMAIN rows
    /\ Cell(rows[u.range - 1], 9) = PendingSync
    /\ IF validateStudentRow(rows[u.range - 1]).valid
       THEN u.values = Synced
       ELSE u.values # Synced /\ u.values[1] = "Error: "

\* C32: in a sheet run every processed row gets at most one status update, for
\* its own sheet row, 'Synced' if it was accepted and 'Error: ...' if it was
\* rejected; no two updates target the same cell, and every accepted record
\* carries the index of the one raw row it was made from
OneStatusPerRow ==
    (SheetRun /\ Transformed) =>
        /\ \A a, b \in DOMAIN sheetUpdates :
               a # b => sheetUpdates[a].range # sheetUpdates[b].range
        /\ \A a \in DOMAIN sheetUpdates : OwnStatus(sheetUpdates[a])
        /\ \A u \in Range(Flat(sent)) : OwnStatus(u)
        /\ Len(Flat(sent)) <= Len(sheetUpdates)
        /\ \A a, b \in DOMAIN transformedRows :
               a # b => transformedRows[a].rowIndex # transformedRows[b].rowIndex
        /\ \A a \in DOMAIN transformedRows :
               /\ transformedRows[a].rowIndex - 1 \in DOMAIN rows
               /\ transformedRows[a] =
                      RecordOf(rows[transformedRows[a].rowIndex - 1],
                               transformedRows[a].rowIndex - 1)
               /\ Accepts(rows[transformedRows[a].rowIndex - 1])

\* one row was accepted and one rejected: a 'Synced' and an 'Error' update,
\* each in its own row of the sheet
OneStatusPerRowWitness ==
    /\ SheetRun /\ pc = "done" /\ error = ""
    /\ Len(sheetUpdates) = 2 /\ AllSent
    /\ \E a, b \in DOMAIN sheetUpdates :
           /\ sheetUpdates[a].values = Synced
           /\ sheetUpdates[b].values # Synced
    /\ \A u \in Range(sheetUpdates) : Cell(source[u.range - 1], 9) = u.values


\* an email as the pipeline normalizes it
Normalized(email) == toLowerCase(trim(email))

\* a run of runETL
StudentsRun == script = "students" /\ runs > 0

\* C33: emails are trimmed and lowercased (and at most 100 characters long)
\* before the load, so rows whose emails differ only in case or in the spaces
\* around them are one student: once a load is committed the store holds
\* exactly one students row for the normalized email of every accepted row,
\* whether the other row came in the same run or was in the store before, and
\* no statement failed on a unique key
OneStudentPerEmail ==
    StudentsRun =>
        /\ \A a \in DOMAIN transformedRows :
               /\ transformedRows[a].email =
                      Normalized(Cell(rows[transformedRows[a].rowIndex - 1], 2))
               /\ Len(transformedRows[a].email) <= EmailMaxLength
        /\ \A a \in DOMAIN db.students :
               Cardinality(Matching(db.students, "email",
                                    Normalized(db.students[a].email))) = 1
        /\ (lastLoad.run = runs /\ "COMMIT" \in Range(log)) =>
               \A i \in AcceptedIndexes :
                   Cardinality(Matching(db.students, "email",
                                        Normalized(Cell(rows[i], 2)))) = 1
        /\ error # "unique_violation"

\* validateStudentRow alone: the email of an accepted row is the trimmed,
\* lowercased cell, of at most 100 characters; a longer one is rejected
EmailNormalized ==
    pc = "returned" =>
        /\ outcome.valid =>
               /\ outcome.data.email = Normalized(Cell(arg, 2))
               /\ Len(outcome.data.email) <= EmailMaxLength
        /\ Cell(arg, 2) = LongEmail => "Email" \in Range(ErrorFields(outcome.errors))

\* two rows with the emails "a@b.co" and " A@b.co" were loaded in one run
\* into one students row
OneStudentPerEmailWitness ==
    /\ StudentsRun /\ pc = "done" /\ error = "" /\ lastLoad.run = runs
    /\ Len(transformedRows) = 2
    /\ Cell(rows[1], 2) # Cell(rows[2], 2)
    /\ transformedRows[1].email = transformedRows[2].email
    /\ Cardinality(Matching(db.students, "email", EmailA)) = 1

\* the row " A@b.co" was loaded into a store that held a@b.co already
SameStudentLaterWitness ==
    /\ StudentsRun /\ pc = "done" /\ error = "" /\ lastLoad.run = runs
    /\ Matching(before.db.students, "email", EmailA) # {}
    /\ \E i \in AcceptedIndexes : Cell(rows[i], 2) # EmailA
    /\ Len(db.students) = Len(before.db.students)

EmailNormalizedWitness ==
    /\ pc = "returned" /\ outcome.valid
    /\ Cell(arg, 2) = << " ", "A", "@", "B", ".", "c", "o", " " >>
    /\ outcome.data.email = << "a", "@", "b", ".", "c", "o" >>


\* every row of the students table old is in the table new, at its place and
\* with every column as it was
KeepsRows(old, new) ==
    /\ Len(old) <= Len(new)
    /\ \A k \in DOMAIN old : new[k] = old[k]

\* the store as the statements of the run see it
Visible == IF tx.open THEN tx.db ELSE db

\* C34: submitting a record whose email is in students already leaves the
\* stored row as it was, in every column and also when the name submitted is
\* another one, and adds no second row for the email
ExistingStudentKept ==
    /\ [](StudentsRun =>
             /\ KeepsRows(before.db.students, Visible.students)
             /\ \A k \in DOMAIN Visible.students :
                    Cardinality(Matching(Visible.students, "email",
                                         Visible.students[k].email)) = 1)
    /\ [][KeepsRows(db.students, db'.students)]_vars

\* the record (Al, Bo, a@b.co) was loaded into a store that held a@b.co as
\* (Ze, Y): the row is still (Ze, Y) and no row was added
ExistingStudentKeptWitness ==
    /\ StudentsRun /\ pc = "done" /\ error = "" /\ lastLoad.run = runs
    /\ before.db = SeededDb
    /\ \E a \in DOMAIN transformedRows :
           /\ transformedRows[a].email = EmailA
           /\ transformedRows[a].firstName = << "A", "l" >>
    /\ db.students = SeededDb.students


\* the enrollments of the student of that email in the course of that name
EnrollmentsOf(store, email, course) ==
    { e \in DOMAIN store.enrollments :
        /\ \E s \in Matching(store.students, "email", email) :
               store.students[s].student_id = store.enrollments[e].student_id
        /\ \E c \in Matching(Courses, "course_name", course) :
               Courses[c].course_id = store.enrollments[e].course_id }

\* the load of this run is committed
LoadCommitted == StudentsRun /\ lastLoad.run = runs /\ "COMMIT" \in Range(log)

\* C35: after a successful CALL register_student the student of that email
\* exists and is enrolled in the named course exactly once, so every row
\* reported as loaded has a students row and an enrollments row
LoadedRowsEnrolled ==
    LoadCommitted =>
        \A a \in DOMAIN lastLoad.records :
            /\ Matching(db.students, "email", lastLoad.records[a].email) # {}
            /\ Cardinality(EnrollmentsOf(db, lastLoad.records[a].email,
                                         lastLoad.records[a].course)) = 1

\* what the code does: the student exists; the enrollment exists, once, when a
\* course of that name exists, and there is none when no course has the name
\* (the default 'General' among them); a repeated call adds no enrollment
EnrolledWhenCourseExists ==
    LoadCommitted =>
        \A a \in DOMAIN lastLoad.records :
            /\ Matching(db.students, "email", lastLoad.records[a].email) # {}
            /\ Cardinality(EnrollmentsOf(db, lastLoad.records[a].email,
                                         lastLoad.records[a].course))
                   = IF FoundCourse(lastLoad.records[a].course) = {} THEN 0 ELSE 1

\* a row without a course was loaded and counted, and has no enrollment
NotEnrolledWitness ==
    /\ LoadCommitted /\ pc = "done" /\ error = "" /\ loadedCount = 1
    /\ Len(lastLoad.records) = 1 /\ lastLoad.records[1].course = General
    /\ db.enrollments = <<>>

\* the same row was loaded by two runs and is enrolled once
EnrolledOnceWitness ==
    /\ LoadCommitted /\ runs = 2 /\ pc = "done"
    /\ lastLoad.previous # <<>>
    /\ \E a \in DOMAIN lastLoad.records :
           lastLoad.records[a].course = IntroToCS
    /\ Len(db.enrollments) = 1


\* the record of a titanic row holds the default of every field whose cell is
\* missing, malformed or out of range, and not the default of a cell that is kept
TitanicDefaults(row, data) ==
    /\ row.survived \in DegradedCells.survived => data.survived = Num(Float(0))
    /\ row.pclass \in DegradedCells.pclass => data.pclass = Num(Float(3))
    /\ row.age \in DegradedCells.age => data.age = SqlNull
    /\ row.sibsp \in DegradedCells.sibsp => data.sibsp = Num(Float(0))
    /\ row.parch \in DegradedCells.parch => data.parch = Num(Float(0))
    /\ row.fare \in DegradedCells.fare => data.fare = Num(Float(0))
    /\ row.survived \in KeptCells.survived => data.survived = Num(Float(1))
    /\ row.pclass \in KeptCells.pclass => data.pclass = Num(Float(2))
    /\ row.age \in KeptCells.age => data.age = Num(Float(22))
    /\ row.sibsp \in KeptCells.sibsp => data.sibsp = Num(Float(1))
    /\ row.parch \in KeptCells.parch => data.parch = Num(Float(2))
    /\ row.fare \in KeptCells.fare => data.fare # Num(Float(0))

\* C36: transformTitanicData passes a row on exactly when its passenger id
\* parses as an integer, transformNetflixData exactly when its show_id is not
\* empty once sanitized; no other field rejects a row, and a missing,
\* malformed or out-of-range value becomes the default of its field (age null,
\* fare 0, sibsp 0, parch 0, survived 0, pclass 3, release_year null)
KeyedRecordsOnly ==
    pc = "transformed" =>
        IF script = "titanic"
        THEN /\ arg.passengerid \in UnusableIds => outcome = <<>>
             /\ arg.passengerid \in UsableIds =>
                    /\ Len(outcome) = 1
                    /\ outcome[1].passenger_id
                           = Num(IF arg.passengerid = << "7" >> THEN 7 ELSE 1)
                    /\ TitanicDefaults(arg, outcome[1])
        ELSE /\ arg.show_id \in UnusableShowIds => outcome = <<>>
             /\ arg.show_id \in UsableShowIds =>
                    /\ Len(outcome) = 1
                    /\ outcome[1].show_id = << "s", "1" >>
                    /\ arg.release_year \in DegradedYears
                           => outcome[1].release_year = SqlNull
                    /\ arg.release_year \in KeptYears
                           => outcome[1].release_year = Num(Float(2020))

\* a titanic row with a usable id and every other field degraded is passed on
KeyedRecordsOnlyWitness ==
    /\ pc = "transformed" /\ script = "titanic" /\ Len(outcome) = 1
    /\ \A field \in DOMAIN DegradedCells : arg[field] \in DegradedCells[field]
    /\ outcome[1].age = SqlNull /\ outcome[1].pclass = Num(Float(3))

\* a netflix row whose show_id is "<>" is not passed on
EmptyShowIdWitness ==
    /\ pc = "transformed" /\ script = "netflix"
    /\ arg.show_id = << "<", ">" >> /\ outcome = <<>>


\* ------------------------------------------------------------------------
\* Two loaders side by side: loadTitanicData in two processes on one store
\* ------------------------------------------------------------------------
\* Each process runs executeTransaction(loadTitanicData's callback) over its own
\* validRows. The INSERT ... ON CONFLICT (passenger_id) DO NOTHING of a batch
\* takes its rows one by one; the unique index sees the committed rows, the
\* rows of the own transaction and the rows of the other transaction that is
\* still open. A row whose key the other open transaction inserted waits for
\* that transaction to end (READ COMMITTED, the default of the pool).
Procs == { 1, 2 }

Other(p) == 3 - p

\* the validRows a run hands to the loader: never empty (loadTitanic returns
\* before the load when there is no valid row)
ConcurrentInputs ==
    { transformTitanicData(s) : s \in SeqsUpTo(TitanicRows, MaxRows) } \ { <<>> }

Loader(validRows) ==
    [ pc |-> "begin", validRows |-> validRows, idx |-> 0, inserted |-> <<>>,
      insertedCount |-> 0, error |-> "" ]

\* the transaction of p is open
Open(p) == procs[p].pc \in { "insert", "commit" }

\* the row the statement of p is about to take
NextRow(p) == procs[p].validRows[procs[p].idx + 1]

\* the row p is about to take waits for the transaction of the other process
Waiting(p) ==
    /\ procs[p].pc = "insert"
    /\ Open(Other(p))
    /\ Matching(db.titanic \o procs[p].inserted, "passenger_id",
                NextRow(p).passenger_id) = {}
    /\ Matching(procs[Other(p)].inserted, "passenger_id",
                NextRow(p).passenger_id) # {}

\* what p does once a row is taken: the next row, or COMMIT after the last one
Advanced(l) ==
    [ l EXCEPT !.idx = @ + 1,
               !.pc = IF l.idx + 1 < Len(l.validRows) THEN "insert" ELSE "commit" ]

\* ROLLBACK and the rethrow of executeTransaction
RolledBack(l, err) ==
    [ l EXCEPT !.pc = "failed", !.error = err, !.inserted = <<>>, !.insertedCount = 0 ]

IdleConcurrent ==
    UNCHANGED << cfgVars, envVars, tx, pool, client, pc, ret, runs, runVars,
                 auditVars, error, exitCode, faults, histVars, retryVars,
                 callVars, sent >>

\* BEGIN
ConcurrentBegin(p) ==
    /\ procs[p].pc = "begin"
    /\ procs' = [ procs EXCEPT ![p].pc = "insert" ]
    /\ UNCHANGED db
    /\ IdleConcurrent

\* a row of an INSERT without its ON CONFLICT clause
ConcurrentInsertPlain(p) ==
    /\ procs[p].pc = "insert"
    /\ ~Waiting(p)
    /\ \E r \in { InsertRow(db.titanic \o procs[p].inserted, NextRow(p), "passenger_id") } :
         procs' = [ procs EXCEPT ![p] =
                      IF r.error # "" THEN RolledBack(@, r.error)
                      ELSE Advanced([ @ EXCEPT !.inserted = Append(@, NextRow(p)),
                                               !.insertedCount = @ + 1 ]) ]
    /\ UNCHANGED db
    /\ IdleConcurrent

\* a row of the INSERT of a batch: skipped when its key is committed or was
\* inserted by the own transaction, else inserted
ConcurrentInsert(p) ==
    /\ procs[p].pc = "insert"
    /\ ~Waiting(p)
    /\ procs' = [ procs EXCEPT ![p] =
                    IF Matching(db.titanic \o procs[p].inserted, "passenger_id",
                                NextRow(p).passenger_id) # {}
                    THEN Advanced(@)
                    ELSE Advanced([ @ EXCEPT !.inserted = Append(@, NextRow(p)),
                                             !.insertedCount = @ + 1 ]) ]
    /\ UNCHANGED db
    /\ IdleConcurrent

\* COMMIT: the rows of the transaction become the store's
ConcurrentCommit(p) ==
    /\ procs[p].pc = "commit"
    /\ db' = [ db EXCEPT !.titanic = @ \o procs[p].inserted ]
    /\ procs' = [ procs EXCEPT ![p].pc = "done", ![p].inserted = <<>> ]
    /\ IdleConcurrent

\* each transaction waits for the other: the store ends one of them with an
\* error, executeTransaction rolls it back and rethrows
DeadlockDetected(p) ==
    /\ Waiting(p)
    /\ Waiting(Other(p))
    /\ procs' = [ procs EXCEPT ![p] = RolledBack(@, "deadlock_detected") ]
    /\ UNCHANGED db
    /\ IdleConcurrent

InitConcurrent ==
    /\ script = "titanic" /\ sourceType = "CSV" /\ enableCaching = FALSE
    /\ source = <<>> /\ cache = NoCache /\ now = 0
    /\ db = EmptyDb /\ tx = NoTx /\ pool = TRUE /\ client = FALSE
    /\ pc = "loadTitanicData" /\ ret = "" /\ runs = 0
    /\ rows = <<>> /\ transformedRows = <<>> /\ sheetUpdates = <<>>
    /\ processedCount = 0 /\ errorCount = 0 /\ idx = 0
    /\ successCount = 0 /\ loadedCount = 0
    /\ report = NoReport /\ qconfig = <<>>
    /\ error = "" /\ exitCode = 0 /\ faults = 0
    /\ log = <<>> /\ before = Found(db, source) /\ lastLoad = NoLoad
    /\ maxRetries = DefaultMaxRetries /\ retryDelay = DefaultRetryDelay
    /\ retries = 0 /\ attempt = 0 /\ lastError = "" /\ issued = 0 /\ waits = <<>>
    /\ arg = <<>> /\ outcome = <<>> /\ sent = <<>>
    /\ procs \in [ Procs -> { Loader(v) : v \in ConcurrentInputs } ]

NextConcurrent ==
    \/ \E p \in Procs : ConcurrentBegin(p)
    \/ \E p \in Procs : ConcurrentInsert(p)
    \/ \E p \in Procs : ConcurrentCommit(p)
    \/ \E p \in Procs : DeadlockDetected(p)

SpecConcurrent == InitConcurrent /\ [][NextConcurrent]_vars

\* the store a run of its own leaves from table
LoadedAlone(table, validRows) == InsertDoNothing(table, validRows, "passenger_id", 0).table

Ended(p) == procs[p].pc \in { "done", "failed" }

ConcurrentRun == pc = "loadTitanicData"

MutualWaitWitness == ConcurrentRun /\ Waiting(1) /\ Waiting(2)

\* a run was ended by the store because of the mutual wait
DeadlockWitness ==
    /\ ConcurrentRun
    /\ \E p \in Procs : procs[p].error = "deadlock_detected" /\ procs[Other(p)].pc = "done"


\* ------------------------------------------------------------------------
\* batchInsert called from the callback of executeTransaction
\* ------------------------------------------------------------------------
\* The callback writes a row of its own through the client of the transaction,
\* calls batchInsert("titanic", columns, values) and then returns or throws.
\* arg holds the values; outcome the result of batchInsert.

\* the row the callback writes through its client: a passenger of its own
OwnRow == Head(transformTitanicData(<< TitanicRow(<< "3" >>, << "A", "l" >>, << "3" >>) >>))

BatchValues == { transformTitanicData(s) : s \in SeqsUpTo(TitanicRows, MaxRows) }

\* the stores the transaction may find: empty, or holding passenger 1
BatchStores ==
    { Inserted(EmptyDb, "titanic", InsertDoNothing(<<>>, v, "passenger_id", 0)).db :
        v \in { <<>>, transformTitanicData(<< TitanicRow(<< "1" >>, << "A", "l" >>, << "2", "2" >>) >>) } }

IdleBatch ==
    UNCHANGED << cfgVars, envVars, pool, ret, runs, runVars, auditVars, exitCode,
                 faults, before, lastLoad, maxRetries, retryDelay, retries,
                 attempt, waits, arg, sent, procs >>

\* pool.connect() and BEGIN
BatchBegin ==
    /\ pc = "executeTransaction.begin"
    /\ tx' = [ open |-> TRUE, db |-> db ]
    /\ client' = TRUE
    /\ pc' = "callback.query"
    /\ Logged("BEGIN")
    /\ UNCHANGED << db, error, lastError, issued, outcome >>
    /\ IdleBatch

\* the callback's own statement, on the client of the transaction
CallbackQuery ==
    /\ pc = "callback.query"
    /\ tx' = [ tx EXCEPT !.db = InsertTitanic(tx.db, << OwnRow >>).db ]
    /\ pc' = "batchInsert.enter"
    /\ Logged("client.query")
    /\ UNCHANGED << db, client, error, lastError, issued, outcome >>
    /\ IdleBatch

\* batchInsert(tableName, columns, values): no query for no values; else one
\* INSERT ... ON CONFLICT DO NOTHING through queryWithRetry, that is through
\* pool.query: a connection of its own, outside the transaction, so the rows
\* are committed when the statement returns. n is the number of attempts
\* queryWithRetry makes; the error is rethrown into the callback.
BatchInsert ==
    /\ pc = "batchInsert.enter"
    /\ IF arg = <<>>
       THEN /\ outcome' = [ rowCount |-> 0 ]
            /\ pc' = "callback.end"
            /\ Logged("No values provided for batch insert")
            /\ UNCHANGED << db, tx, error, lastError, issued >>
       ELSE \E n \in 1..maxRetries :
              /\ issued' = issued + n
              /\ Logged("queryWithRetry")
              /\ \/ \E r \in { InsertTitanic(db, arg) } :
                       /\ db' = r.db
                       /\ tx' = [ tx EXCEPT !.db = InsertTitanic(tx.db, arg).db ]
                       /\ outcome' = [ rowCount |-> r.rowCount ]
                       /\ pc' = "callback.end"
                       /\ UNCHANGED << error, lastError >>
                 \/ \E code \in ErrorCodes :
                       /\ code \in ConnectionErrors => n = maxRetries
                       /\ lastError' = code
                       /\ error' = code
                       /\ pc' = "executeTransaction.rollback"
                       /\ UNCHANGED << db, tx, outcome >>
    /\ UNCHANGED client
    /\ IdleBatch

\* the callback returns, or throws later on
CallbackEnd ==
    /\ pc = "callback.end"
    /\ \/ pc' = "executeTransaction.commit" /\ UNCHANGED error
       \/ pc' = "executeTransaction.rollback" /\ error' = "callback failed"
    /\ UNCHANGED << db, tx, client, log, lastError, issued, outcome >>
    /\ IdleBatch

\* COMMIT and release
BatchCommit ==
    /\ pc = "executeTransaction.commit"
    /\ db' = tx.db
    /\ tx' = NoTx
    /\ client' = FALSE
    /\ pc' = "returned"
    /\ Logged("COMMIT")
    /\ UNCHANGED << error, lastError, issued, outcome >>
    /\ IdleBatch

\* ROLLBACK, release and rethrow
BatchRollback ==
    /\ pc = "executeTransaction.rollback"
    /\ UNCHANGED db
    /\ tx' = NoTx
    /\ client' = FALSE
    /\ pc' = "thrown"
    /\ Logged("ROLLBACK")
    /\ UNCHANGED << error, lastError, issued, outcome >>
    /\ IdleBatch

InitBatch ==
    /\ script = "titanic" /\ sourceType = "CSV" /\ enableCaching = FALSE
    /\ source = <<>> /\ cache = NoCache /\ now = 0
    /\ db \in BatchStores /\ tx = NoTx /\ pool = TRUE /\ client = FALSE
    /\ pc = "executeTransaction.begin" /\ ret = "" /\ runs = 0
    /\ rows = <<>> /\ transformedRows = <<>> /\ sheetUpdates = <<>>
    /\ processedCount = 0 /\ errorCount = 0 /\ idx = 0
    /\ successCount = 0 /\ loadedCount = 0
    /\ report = NoReport /\ qconfig = <<>>
    /\ error = "" /\ exitCode = 0 /\ faults = 0
    /\ log = <<>> /\ before = Found(db, source) /\ lastLoad = NoLoad
    /\ maxRetries = DefaultMaxRetries /\ retryDelay = DefaultRetryDelay
    /\ retries = 0 /\ attempt = 0 /\ lastError = "" /\ issued = 0 /\ waits = <<>>
    /\ arg \in BatchValues /\ outcome = <<>> /\ sent = <<>> /\ procs = <<>>

NextBatch ==
    \/ BatchBegin
    \/ CallbackQuery
    \/ BatchInsert
    \/ CallbackEnd
    \/ BatchCommit
    \/ BatchRollback

SpecBatch == InitBatch /\ [][NextBatch]_vars

BatchRun == "BEGIN" \in Range(log) /\ "client.query" \in Range(log)

\* batchInsert returned
BatchInserted == BatchRun /\ outcome # <<>>

\* C38: batchInsert's writes take part in the enclosing transaction: after the
\* ROLLBACK of a transaction whose callback called batchInsert the store is the
\* one the transaction found; and batchInsert with no values issues no query
\* and returns rowCount 0.
BatchInsertInTransaction ==
    /\ (BatchRun /\ pc = "thrown") => db = before.db
    /\ (BatchInserted /\ arg = <<>>) => issued = 0 /\ outcome.rowCount = 0

\* what holds instead: the rows of batchInsert are in the store as soon as it
\* returns and stay there whatever the transaction does, only the callback's
\* own row follows the transaction; no values, no query and rowCount 0
BatchInsertCommitsAtOnce ==
    /\ BatchInserted =>
          /\ LoadedAlone(before.db.titanic, arg)
               = SelectSeq(db.titanic, LAMBDA r : r # OwnRow)
          /\ outcome.rowCount = Len(LoadedAlone(before.db.titanic, arg))
                                  - Len(before.db.titanic)
    /\ (BatchRun /\ pc = "thrown") => OwnRow \notin Range(db.titanic)
    /\ (BatchRun /\ pc = "returned") => OwnRow \in Range(db.titanic)
    /\ (BatchInserted /\ arg = <<>>) => issued = 0 /\ outcome.rowCount = 0

\* a transaction rolled back after batchInsert had inserted rows
BatchRolledBackWitness ==
    /\ BatchInserted /\ pc = "thrown"
    /\ outcome.rowCount > 0
    /\ db # before.db

\* batchInsert returned from a call without values
EmptyBatchWitness == BatchInserted /\ arg = <<>> /\ pc = "thrown"


Sanitized == pc = "sanitized"

Trimmed(s) == s = <<>> \/ (~IsSpace(Head(s)) /\ ~IsSpace(s[Len(s)]))

\* C39: sanitizeString is idempotent and its output keeps its own rules: a
\* second sanitizeString with the same length leaves the output as it is, the
\* output has at most maxLength characters, none of them is < > ' or ", and it
\* neither starts nor ends with whitespace.
SanitizeStringIdempotent ==
    Sanitized =>
        /\ sanitizeString(outcome, arg.maxLength) = outcome
        /\ Len(outcome) <= arg.maxLength
        /\ \A i \in DOMAIN outcome : ~IsHazard(outcome[i])
        /\ Trimmed(outcome)

\* what holds instead: the output has at most maxLength characters and none of
\* the hazardous ones; it is a fixed point exactly when it is trimmed, and the
\* second sanitizeString always gives a trimmed fixed point
SanitizeStringTwice ==
    Sanitized =>
        /\ Len(outcome) <= arg.maxLength
        /\ \A i \in DOMAIN outcome : ~IsHazard(outcome[i])
        /\ sanitizeString(outcome, arg.maxLength) = trim(outcome)
        /\ Trimmed(sanitizeString(outcome, arg.maxLength))

\* a hazardous character stood before a blank: the output starts with the blank
LeadingBlankWitness ==
    /\ Sanitized
    /\ arg.input = << "<", " ", "a" >> /\ arg.maxLength = MaxLen
    /\ outcome = << " ", "a" >>

\* the cut at maxLength fell behind a blank: the output ends with it
TrailingBlankWitness ==
    /\ Sanitized
    /\ arg.input = << "a", " ", "a" >> /\ arg.maxLength = 2
    /\ outcome = << "a", " " >>

=============================================================================
